---- MODULE Spec2Model ----
(***************************************************************************)
(* Model of the price resolver (src/src/price_fetcher.rs) and of the chat  *)
(* orchestrator (src/src/investment_chat/mod.rs) of defi-consultant.       *)
(*                                                                         *)
(* SpecFetch: concurrent callers of fetch_coin_price,                      *)
(*   fetch_coin_historical_price and fetch_multiple_coin_prices sharing    *)
(*   the process-wide LAST_REQUEST mutex, with a discrete clock.           *)
(***************************************************************************)
EXTENDS Integers, Sequences, FiniteSets, TLC

None == "None"
\* Option<Instant>::None
NoInstant == -1

\* ---------------------------------------------------------------- bounds
\* clock granularity and horizon, in milliseconds
ClockStep == 750
MaxTime == 2250
\* number of fetch_* calls started in one behaviour
MaxCalls == 2

\* ------------------------------------------------------- program constants
MIN_REQUEST_INTERVAL_MS == 1500

\* ---------------------------------------------------------- input domains
Callers == {"c1", "c2"}
Coins == {"bitcoin", "foocoin"}
PriceValues == {25}
NoUsd == -1
FetchFns == {"fetch_coin_price", "fetch_coin_historical_price",
             "fetch_multiple_coin_prices"}
\* coin_ids slices handed to fetch_multiple_coin_prices
CoinLists == {<<>>, <<"bitcoin", "foocoin">>}

VARIABLES
    now,            \* the monotonic clock (Instant::now()), in ms
    LAST_REQUEST,   \* content of the static Mutex<Option<Instant>>
    lockHolder,     \* which caller holds the LAST_REQUEST mutex guard
    fpc,            \* per caller: position inside the fetch_* function
    ffn,            \* per caller: which fetch_* function it runs
    fargs,          \* per caller: coin_id (or coin_ids for the multi fetch)
    acqAt,          \* per caller: time respect_rate_limit() was entered
    acquired,       \* per caller: respect_rate_limit() returned in this call
    wakeAt,         \* per caller: deadline of tokio::time::sleep
    resp,           \* per caller: the response received for this call
    fresult,        \* per caller: the value the fetch_* call returned
    gapOk,          \* history: every request so far started at least the
                    \* minimum interval after the one before it
    lastStart,      \* history: start time of the last outbound request
    calls,          \* number of fetch_* calls started so far
    messages,       \* the messages table, in insertion order
    strategies,     \* the investment_strategies table, in insertion order
    turn,           \* per agent: the process_message call in progress
    turns,          \* number of process_message calls started so far
    sessions,       \* history: the user of each process_message call so far
    date_input,     \* the string format_date_for_api is called with
    date_output,    \* what the call returned
    date_output2,   \* what a second call, with that result, returned
    quote_crypto,   \* the coin name a current-price answer is written for
    quote_price,    \* the price fetched for it, in 1/10000 dollar
    quote_levels,   \* the price levels written into the answer
    list_message,   \* a strategy message with list-valued fields
    list_field,     \* the label of the list-valued field looked at
    list_result     \* what extract_array_field returned for it, and the
                    \* list handed to create_strategy

fvars == <<now, LAST_REQUEST, lockHolder, fpc, ffn, fargs, acqAt, acquired,
           wakeAt, resp, fresult, gapOk, lastStart, calls>>

cvars == <<messages, strategies, turn, turns, sessions>>

dvars == <<date_input, date_output, date_output2>>

pvars == <<quote_crypto, quote_price, quote_levels,
           list_message, list_field, list_result>>

vars == <<fvars, cvars, dvars, pvars>>

\* ------------------------------------------------------ price-source model
\* A response of the price source.  transport_ok = FALSE: send() or the body
\* read failed with a reqwest::Error.  shape: what the body deserializes as.
\*   "garbage"  - not JSON of the expected structure (decode error)
\*   "simple"   - /simple/price: object coin -> {currency -> f64};
\*                usd[c] is the usd entry of coin c, NoUsd when the coin's
\*                map has no usd key; DOMAIN usd = coins present
\*   "history"  - /coins/{id}/history: market_data.current_price map;
\*                hist_usd is its usd entry or NoUsd
NoBody == [shape |-> "garbage", usd |-> <<>>, hist_usd |-> NoUsd]

\* the price source answers about the ids of the query string only
SimpleBodies(ids) ==
    UNION { { [shape |-> "simple", usd |-> u, hist_usd |-> NoUsd] :
                u \in [S -> PriceValues \cup {NoUsd}] } : S \in SUBSET ids }

HistoryBodies ==
    { [shape |-> "history", usd |-> <<>>, hist_usd |-> p] :
        p \in PriceValues \cup {NoUsd} }

Statuses == {"200", "429", "404", "500"}

Responses(fn, args) ==
    { [transport_ok |-> FALSE, status |-> "200", body |-> NoBody] }
    \cup { [transport_ok |-> TRUE, status |-> s, body |-> NoBody] :
             s \in Statuses }
    \cup { [transport_ok |-> TRUE, status |-> "200", body |-> b] :
             b \in IF fn = "fetch_coin_historical_price"
                   THEN HistoryBodies
                   ELSE SimpleBodies({ args[i] : i \in DOMAIN args }) }

NoResponse == [transport_ok |-> FALSE, status |-> "none", body |-> NoBody]

\* ------------------------------------------------------------ PriceError
Ok(v) == [ok |-> TRUE, value |-> v, err |-> "", detail |-> <<>>]
Err(e, d) == [ok |-> FALSE, value |-> NoUsd, err |-> e, detail |-> d]
NoResult == [ok |-> FALSE, value |-> NoUsd, err |-> "pending", detail |-> <<>>]

is_success(status) == status = "200"


\* check_response with the two status tests in the other order
check_response_status_first(r) ==
    IF ~r.transport_ok THEN Err("NetworkError", <<>>)
    ELSE IF ~is_success(r.status)
         THEN Err("InvalidResponse", <<"Status code: ", r.status>>)
    ELSE IF r.status = "429" THEN Err("RateLimitExceeded", <<>>)
    ELSE IF r.body.shape = "garbage" THEN Err("NetworkError", <<>>)
    ELSE NoResult

\* Lines 75-93 (and the same lines of the two other functions): send with a
\* 10 s timeout, `?` on the reqwest::Error, the 429 test, the is_success test,
\* then response.json::<T>() with `?`.  NoResult means "parsed, go on".
check_response(r) ==
    IF ~r.transport_ok THEN Err("NetworkError", <<>>)
    ELSE IF r.status = "429" THEN Err("RateLimitExceeded", <<>>)
    ELSE IF ~is_success(r.status)
         THEN Err("InvalidResponse", <<"Status code: ", r.status>>)
    ELSE IF r.body.shape = "garbage" THEN Err("NetworkError", <<>>)
    ELSE NoResult

\* fetch_coin_price, lines 100-109
extract_coin_price(coin_id, body) ==
    IF coin_id \in DOMAIN body.usd
    THEN IF body.usd[coin_id] # NoUsd
         THEN Ok(body.usd[coin_id])
         ELSE Err("PriceNotFound", <<"USD price for ", coin_id>>)
    ELSE Err("PriceNotFound", <<coin_id>>)

\* fetch_multiple_coin_prices, lines 154-163
extract_multiple_prices(coin_ids, body) ==
    LET have == { coin_ids[i] : i \in DOMAIN coin_ids }
        priced == { c \in have \cap DOMAIN body.usd : body.usd[c] # NoUsd }
    IN  Ok([c \in priced |-> body.usd[c]])

\* fetch_coin_historical_price, lines 226-230
extract_historical_price(coin_id, body) ==
    IF body.hist_usd # NoUsd
    THEN Ok(body.hist_usd)
    ELSE Err("PriceNotFound", <<"Historical USD price for ", coin_id>>)

extract_price(fn, args, body) ==
    CASE fn = "fetch_coin_price" -> extract_coin_price(args[1], body)
      [] fn = "fetch_multiple_coin_prices" ->
             extract_multiple_prices(args, body)
      [] fn = "fetch_coin_historical_price" ->
             extract_historical_price(args[1], body)

\* The whole of a fetch_* call as a function of the response it receives.
fetch_result(fn, args, r) ==
    IF check_response(r) # NoResult THEN check_response(r)
    ELSE extract_price(fn, args, r.body)

\* ------------------------------------------------------------- SpecFetch
HistDates == {"01-12-2024"}

FetchArgs(fn) ==
    CASE fn = "fetch_coin_price" -> { <<c>> : c \in Coins }
      [] fn = "fetch_coin_historical_price" ->
             { <<c, d>> : c \in Coins, d \in HistDates }
      [] fn = "fetch_multiple_coin_prices" -> CoinLists

InitFetchVars ==
    /\ now = 0
    /\ LAST_REQUEST = NoInstant
    /\ lockHolder = None
    /\ fpc = [c \in Callers |-> "idle"]
    /\ ffn = [c \in Callers |-> "fetch_coin_price"]
    /\ fargs = [c \in Callers |-> <<>>]
    /\ acqAt = [c \in Callers |-> 0]
    /\ acquired = [c \in Callers |-> FALSE]
    /\ wakeAt = [c \in Callers |-> 0]
    /\ resp = [c \in Callers |-> NoResponse]
    /\ fresult = [c \in Callers |-> NoResult]
    /\ gapOk = TRUE
    /\ lastStart = NoInstant
    /\ calls = 0

\* Time passes.
Tick ==
    /\ now + ClockStep <= MaxTime
    /\ now' = now + ClockStep
    /\ UNCHANGED <<LAST_REQUEST, lockHolder, fpc, ffn, fargs, acqAt, acquired,
                   wakeAt, resp, fresult, gapOk, lastStart, calls>>
    /\ UNCHANGED <<cvars, dvars, pvars>>

\* fetch_entry_pc with the multi fetch going straight to the request
fetch_entry_pc_unlimited(fn, args) ==
    IF fn = "fetch_multiple_coin_prices"
    THEN IF args = <<>> THEN "done" ELSE "send"
    ELSE "rl_enter"

\* Entry of a fetch_* function.  fetch_multiple_coin_prices returns an empty
\* map at once for an empty slice (lines 115-117); every other call goes to
\* respect_rate_limit() first (lines 67, 120, 180).
fetch_entry_pc(fn, args) ==
    IF fn = "fetch_multiple_coin_prices" /\ args = <<>> THEN "done"
    ELSE "rl_enter"

fetch_call(c, fn, args) ==
    /\ fpc[c] = "idle"
    /\ calls < MaxCalls
    /\ calls' = calls + 1
    /\ ffn' = [ffn EXCEPT ![c] = fn]
    /\ fargs' = [fargs EXCEPT ![c] = args]
    /\ fpc' = [fpc EXCEPT ![c] = fetch_entry_pc(fn, args)]
    /\ acqAt' = [acqAt EXCEPT ![c] = now]
    /\ acquired' = [acquired EXCEPT ![c] = FALSE]
    /\ resp' = [resp EXCEPT ![c] = NoResponse]
    /\ fresult' = [fresult EXCEPT ![c] =
                     IF fetch_entry_pc(fn, args) = "done"
                     THEN Ok(<<>>) ELSE NoResult]
    /\ UNCHANGED <<now, LAST_REQUEST, lockHolder, wakeAt, gapOk, lastStart>>
    /\ UNCHANGED <<cvars, dvars, pvars>>

\* respect_rate_limit, line 51: LAST_REQUEST.lock() blocks until the mutex
\* is free.  (The Err arm is a poisoned mutex; no holder panics, so it is
\* never taken.)
respect_rate_limit_lock(c) ==
    /\ fpc[c] = "rl_enter"
    /\ lockHolder = None
    /\ lockHolder' = c
    /\ fpc' = [fpc EXCEPT ![c] = "rl_locked"]
    /\ UNCHANGED <<now, LAST_REQUEST, ffn, fargs, acqAt, acquired, wakeAt,
                   resp, fresult, gapOk, lastStart, calls>>
    /\ UNCHANGED <<cvars, dvars, pvars>>

\* line 51 when the mutex is held by a caller suspended in the sleep of line
\* 58 and this caller is polled by the same thread (the guard is held across
\* the await, so the futures are not Send and concurrent callers of one
\* runtime are polled by one thread): std::sync::Mutex::lock() blocks the
\* thread, the call does not return.
respect_rate_limit_block(c) ==
    /\ fpc[c] = "rl_enter"
    /\ lockHolder # None
    /\ lockHolder # c
    /\ fpc[lockHolder] = "rl_sleep"
    /\ fpc' = [fpc EXCEPT ![c] = "rl_blocked"]
    /\ UNCHANGED <<now, LAST_REQUEST, lockHolder, ffn, fargs, acqAt, acquired,
                   wakeAt, resp, fresult, gapOk, lastStart, calls>>
    /\ UNCHANGED <<cvars, dvars, pvars>>

\* the guard outliving respect_rate_limit
guard_kept_after_rate_limit(c) == c

\* who owns the guard once respect_rate_limit has run to its closing brace
\* (line 61 drops the guard)
guard_after_rate_limit(c) == None

\* lines 52-59: with the guard held, compare elapsed with the minimum
\* interval; either start the sleep (guard still held across the await) or
\* fall out of the block, dropping the guard.
respect_rate_limit_check(c) ==
    /\ fpc[c] = "rl_locked"
    /\ IF LAST_REQUEST # NoInstant /\ now - LAST_REQUEST < MIN_REQUEST_INTERVAL_MS
       THEN /\ wakeAt' = [wakeAt EXCEPT ![c] =
                  now + (MIN_REQUEST_INTERVAL_MS - (now - LAST_REQUEST))]
            /\ fpc' = [fpc EXCEPT ![c] = "rl_sleep"]
            /\ UNCHANGED <<lockHolder, acquired>>
       ELSE /\ lockHolder' = guard_after_rate_limit(c)
            /\ acquired' = [acquired EXCEPT ![c] = TRUE]
            /\ fpc' = [fpc EXCEPT ![c] = "send"]
            /\ UNCHANGED wakeAt
    /\ UNCHANGED <<now, LAST_REQUEST, ffn, fargs, acqAt, resp, fresult,
                   gapOk, lastStart, calls>>
    /\ UNCHANGED <<cvars, dvars, pvars>>

\* line 58-61: the sleep is over, the guard is dropped, the function returns.
\* The sleeper is resumed by its thread, which must not be inside another
\* caller's lock().
respect_rate_limit_wake(c) ==
    /\ fpc[c] = "rl_sleep"
    /\ now >= wakeAt[c]
    /\ \A d \in Callers : fpc[d] # "rl_blocked"
    /\ lockHolder' = guard_after_rate_limit(c)
    /\ acquired' = [acquired EXCEPT ![c] = TRUE]
    /\ wakeAt' = [wakeAt EXCEPT ![c] = 0]
    /\ fpc' = [fpc EXCEPT ![c] = "send"]
    /\ UNCHANGED <<now, LAST_REQUEST, ffn, fargs, acqAt, resp,
                   fresult, gapOk, lastStart, calls>>
    /\ UNCHANGED <<cvars, dvars, pvars>>

\* lines 69-77: build the URL and start the outbound request.
send_request(c) ==
    /\ fpc[c] = "send"
    /\ gapOk' = (gapOk /\ (lastStart = NoInstant
                           \/ now - lastStart >= MIN_REQUEST_INTERVAL_MS))
    /\ lastStart' = now
    /\ fpc' = [fpc EXCEPT ![c] = "inflight"]
    /\ UNCHANGED <<now, LAST_REQUEST, lockHolder, ffn, fargs, acqAt,
                   acquired, wakeAt, resp, fresult, calls>>
    /\ UNCHANGED <<cvars, dvars, pvars>>

\* lines 78-93: the response (or the transport error) arrives; the early
\* returns leave LAST_REQUEST untouched.
receive_response(c, r) ==
    /\ fpc[c] = "inflight"
    /\ r \in Responses(ffn[c], fargs[c])
    /\ resp' = [resp EXCEPT ![c] = r]
    /\ IF check_response(r) # NoResult
       THEN /\ fresult' = [fresult EXCEPT ![c] = check_response(r)]
            /\ fpc' = [fpc EXCEPT ![c] = "done"]
       ELSE /\ fpc' = [fpc EXCEPT ![c] = "upd"]
            /\ UNCHANGED fresult
    /\ acqAt' = [acqAt EXCEPT ![c] = 0]
    /\ UNCHANGED <<now, LAST_REQUEST, lockHolder, ffn, fargs,
                   acquired, wakeAt, gapOk, lastStart, calls>>
    /\ UNCHANGED <<cvars, dvars, pvars>>

\* line 96: LAST_REQUEST.lock() after a parsed response.
update_last_request_lock(c) ==
    /\ fpc[c] = "upd"
    /\ lockHolder = None
    /\ lockHolder' = c
    /\ fpc' = [fpc EXCEPT ![c] = "upd_locked"]
    /\ UNCHANGED <<now, LAST_REQUEST, ffn, fargs, acqAt, acquired, wakeAt,
                   resp, fresult, gapOk, lastStart, calls>>
    /\ UNCHANGED <<cvars, dvars, pvars>>

\* lines 97-109: store Instant::now(), drop the guard, extract the price.
update_last_request_store(c) ==
    /\ fpc[c] = "upd_locked"
    /\ LAST_REQUEST' = now
    /\ lockHolder' = None
    /\ fresult' = [fresult EXCEPT ![c] =
                     extract_price(ffn[c], fargs[c], resp[c].body)]
    /\ fpc' = [fpc EXCEPT ![c] = "done"]
    /\ UNCHANGED <<now, ffn, fargs, acqAt, acquired, wakeAt, resp, gapOk, lastStart,
                   calls>>
    /\ UNCHANGED <<cvars, dvars, pvars>>

\* The call has returned; the caller drops the result and may call again.
fetch_return(c) ==
    /\ fpc[c] = "done"
    /\ fpc' = [fpc EXCEPT ![c] = "idle"]
    /\ ffn' = [ffn EXCEPT ![c] = "fetch_coin_price"]
    /\ fargs' = [fargs EXCEPT ![c] = <<>>]
    /\ acqAt' = [acqAt EXCEPT ![c] = 0]
    /\ acquired' = [acquired EXCEPT ![c] = FALSE]
    /\ resp' = [resp EXCEPT ![c] = NoResponse]
    /\ fresult' = [fresult EXCEPT ![c] = NoResult]
    /\ UNCHANGED <<now, LAST_REQUEST, lockHolder, wakeAt, gapOk,
                   lastStart, calls>>
    /\ UNCHANGED <<cvars, dvars, pvars>>

\* ======================================================= chat orchestrator
\* InvestmentChatAgent::process_message and the handlers it calls
\* (src/src/investment_chat/mod.rs).
\*
\* Message texts are drawn from a fixed corpus.  The six regexes of
\* handle_price_query, the substring tests and extract_field are tabulated
\* for the corpus: each table entry is the result of the source's regex (or
\* str::contains on the lowercased message) on that message.  Regex captures
\* are written as TLA+ strings; a captured date is a sequence of characters
\* so that format_date_for_api can be computed on it.

\* total number of process_message turns started in one behaviour
MaxTurns == 2

Agents == {"alice", "bob"}

NoMatch == [matched |-> FALSE, g |-> <<>>, date |-> <<>>]

Messages ==
    { "What was the price of bitcoin on 01-12-2024",
      "What was the price of foocoin on 1/2/24",
      "What was the price of bitcoin on 1-2-123",
      "What is the historical price of foocoin",
      "What is the historical price of btc in january",
      "What is the price of bitcoin?",
      "What is the price of foocoin?",
      "entry points for solana",
      "Save strategy\nName: DCA Plan\nCategory: yield\nDescription: buy weekly\nRisk Level: low",
      "Save strategy\nName: X",
      "plan my defi portfolio",
      "how do i diversify with ethereum",
      "thanks a lot",
      "bitcoin",
      "what is bitcoin worth",
      "what is bitcoin and entry points for solana",
      "bitcoin price",
      "Save strategy\nName:\nCategory: yield\nDescription: buy weekly\nRisk Level: low",
      "save this to the database",
      "prices for solana entering",
      "how much is eth",
      "how much is bitcoin now, when to buy" }

ListMessages ==
    { "Save strategy\nName: S\nCategory: yield\nDescription: d\nRisk Level: low",
      "Save strategy\nName: S\nCategory: yield\nDescription: d\nRisk Level: low\nSteps: buy, hold, sell",
      "Save strategy\nName: S\nCategory: yield\nDescription: d\nRisk Level: low\nSteps:\n1. buy\n2. hold\n3. sell",
      "Save strategy\nName: S\nCategory: yield\nDescription: d\nRisk Level: low\nSteps: as follows\n1. buy\n2. hold",
      "Save strategy\nName: S\nCategory: yield\nDescription: d\nRisk Level: low\nSteps:\n1. buy, then wait\n2. sell",
      "Save strategy\nName: S\nCategory: yield\nDescription: d\nRisk Level: low\nTags: defi",
      "Save strategy\nName: S\nCategory: yield\nDescription: d\nRisk Level: low\nTags: defi\nSteps: buy, hold, sell",
      "Save strategy\nName: S\nCategory: yield\nDescription: d\nRisk Level: low\nTags: defi\nSteps:\n1. buy\n2. hold\n3. sell",
      "Save strategy\nName: S\nCategory: yield\nDescription: d\nRisk Level: low\nTags: defi\nSteps: as follows\n1. buy\n2. hold",
      "Save strategy\nName: S\nCategory: yield\nDescription: d\nRisk Level: low\nTags: defi\nSteps:\n1. buy, then wait\n2. sell",
      "Save strategy\nName: S\nCategory: yield\nDescription: d\nRisk Level: low\nTags: defi, yield",
      "Save strategy\nName: S\nCategory: yield\nDescription: d\nRisk Level: low\nTags: defi, yield\nSteps: buy, hold, sell",
      "Save strategy\nName: S\nCategory: yield\nDescription: d\nRisk Level: low\nTags: defi, yield\nSteps:\n1. buy\n2. hold\n3. sell",
      "Save strategy\nName: S\nCategory: yield\nDescription: d\nRisk Level: low\nTags: defi, yield\nSteps: as follows\n1. buy\n2. hold",
      "Save strategy\nName: S\nCategory: yield\nDescription: d\nRisk Level: low\nTags: defi, yield\nSteps:\n1. buy, then wait\n2. sell",
      "Save strategy\nName: S\nCategory: yield\nDescription: d\nRisk Level: low\nTags: defi,,yield",
      "Save strategy\nName: S\nCategory: yield\nDescription: d\nRisk Level: low\nTags: defi,,yield\nSteps: buy, hold, sell",
      "Save strategy\nName: S\nCategory: yield\nDescription: d\nRisk Level: low\nTags: defi,,yield\nSteps:\n1. buy\n2. hold\n3. sell",
      "Save strategy\nName: S\nCategory: yield\nDescription: d\nRisk Level: low\nTags: defi,,yield\nSteps: as follows\n1. buy\n2. hold",
      "Save strategy\nName: S\nCategory: yield\nDescription: d\nRisk Level: low\nTags: defi,,yield\nSteps:\n1. buy, then wait\n2. sell",
      "Save strategy\nName: S\nCategory: yield\nDescription: d\nRisk Level: low\nTags: defi,",
      "Save strategy\nName: S\nCategory: yield\nDescription: d\nRisk Level: low\nTags: defi,\nSteps: buy, hold, sell",
      "Save strategy\nName: S\nCategory: yield\nDescription: d\nRisk Level: low\nTags: defi,\nSteps:\n1. buy\n2. hold\n3. sell",
      "Save strategy\nName: S\nCategory: yield\nDescription: d\nRisk Level: low\nTags: defi,\nSteps: as follows\n1. buy\n2. hold",
      "Save strategy\nName: S\nCategory: yield\nDescription: d\nRisk Level: low\nTags: defi,\nSteps:\n1. buy, then wait\n2. sell",
      "Save strategy\nName: S\nCategory: yield\nDescription: d\nRisk Level: low\nTags:",
      "Save strategy\nName: S\nCategory: yield\nDescription: d\nRisk Level: low\nTags:\nSteps: buy, hold, sell",
      "Save strategy\nName: S\nCategory: yield\nDescription: d\nRisk Level: low\nTags:\nSteps:\n1. buy\n2. hold\n3. sell",
      "Save strategy\nName: S\nCategory: yield\nDescription: d\nRisk Level: low\nTags:\nSteps: as follows\n1. buy\n2. hold",
      "Save strategy\nName: S\nCategory: yield\nDescription: d\nRisk Level: low\nTags:\nSteps:\n1. buy, then wait\n2. sell" }

price_regex(m) ==
    CASE m = "What is the historical price of foocoin" ->
             [matched |-> TRUE, g |-> <<"foocoin">>, date |-> <<>>]
      [] m = "What is the price of bitcoin?" ->
             [matched |-> TRUE, g |-> <<"bitcoin">>, date |-> <<>>]
      [] m = "What is the price of foocoin?" ->
             [matched |-> TRUE, g |-> <<"foocoin">>, date |-> <<>>]
      [] m = "bitcoin price" ->
             [matched |-> TRUE, g |-> <<None>>, date |-> <<>>]
      [] m = "how much is eth" ->
             [matched |-> TRUE, g |-> <<"eth">>, date |-> <<>>]
      [] m = "how much is bitcoin now, when to buy" ->
             [matched |-> TRUE, g |-> <<"bitcoin">>, date |-> <<>>]
      [] OTHER -> NoMatch

direct_regex(m) ==
    CASE m = "bitcoin" ->
             [matched |-> TRUE, g |-> <<"bitcoin">>, date |-> <<>>]
      [] m = "bitcoin price" ->
             [matched |-> TRUE, g |-> <<"bitcoin">>, date |-> <<>>]
      [] OTHER -> NoMatch

common_crypto_regex(m) ==
    CASE m = "what is bitcoin worth" ->
             [matched |-> TRUE, g |-> <<"bitcoin">>, date |-> <<>>]
      [] m = "what is bitcoin and entry points for solana" ->
             [matched |-> TRUE, g |-> <<"bitcoin">>, date |-> <<>>]
      [] OTHER -> NoMatch

entry_points_regex(m) ==
    CASE m = "entry points for solana" ->
             [matched |-> TRUE, g |-> <<None, "solana", None>>, date |-> <<>>]
      [] m = "what is bitcoin and entry points for solana" ->
             [matched |-> TRUE, g |-> <<None, "solana", None>>, date |-> <<>>]
      [] m = "prices for solana entering" ->
             [matched |-> TRUE, g |-> <<None, None, "solana">>, date |-> <<>>]
      [] OTHER -> NoMatch

historical_regex(m) ==
    CASE m = "What was the price of bitcoin on 01-12-2024" ->
             [matched |-> TRUE, g |-> <<"bitcoin">>, date |-> <<"0", "1", "-", "1", "2", "-", "2", "0", "2", "4">>]
      [] m = "What was the price of foocoin on 1/2/24" ->
             [matched |-> TRUE, g |-> <<"foocoin">>, date |-> <<"1", "/", "2", "/", "2", "4">>]
      [] m = "What was the price of bitcoin on 1-2-123" ->
             [matched |-> TRUE, g |-> <<"bitcoin">>, date |-> <<"1", "-", "2", "-", "1", "2", "3">>]
      [] OTHER -> NoMatch

historical_general_regex(m) ==
    CASE m = "What is the historical price of foocoin" ->
             [matched |-> TRUE, g |-> <<"foocoin">>, date |-> <<>>]
      [] m = "What is the historical price of btc in january" ->
             [matched |-> TRUE, g |-> <<"btc">>, date |-> <<>>]
      [] OTHER -> NoMatch

ContainedWords(m) ==
    CASE m = "What was the price of bitcoin on 01-12-2024" ->
             {"bitcoin", "price"}
      [] m = "What was the price of foocoin on 1/2/24" ->
             {"price"}
      [] m = "What was the price of bitcoin on 1-2-123" ->
             {"bitcoin", "price"}
      [] m = "What is the historical price of foocoin" ->
             {"price"}
      [] m = "What is the historical price of btc in january" ->
             {"price"}
      [] m = "What is the price of bitcoin?" ->
             {"bitcoin", "price"}
      [] m = "What is the price of foocoin?" ->
             {"price"}
      [] m = "entry points for solana" ->
             {"entry", "entry point", "entry points", "solana"}
      [] m = "Save strategy\nName: DCA Plan\nCategory: yield\nDescription: buy weekly\nRisk Level: low" ->
             {"buy", "level", "plan", "risk", "save", "strategy", "yield"}
      [] m = "Save strategy\nName: X" ->
             {"save", "strategy"}
      [] m = "plan my defi portfolio" ->
             {"defi", "plan", "portfolio"}
      [] m = "how do i diversify with ethereum" ->
             {"diversify", "ethereum"}
      [] m = "thanks a lot" ->
             {}
      [] m = "bitcoin" ->
             {"bitcoin"}
      [] m = "what is bitcoin worth" ->
             {"bitcoin"}
      [] m = "what is bitcoin and entry points for solana" ->
             {"bitcoin", "entry", "entry point", "entry points", "solana"}
      [] m = "bitcoin price" ->
             {"bitcoin", "price"}
      [] m = "Save strategy\nName:\nCategory: yield\nDescription: buy weekly\nRisk Level: low" ->
             {"buy", "level", "risk", "save", "strategy", "yield"}
      [] m = "save this to the database" ->
             {"base", "database", "save"}
      [] m = "prices for solana entering" ->
             {"enter", "price", "solana"}
      [] m = "how much is eth" ->
             {}
      [] m = "how much is bitcoin now, when to buy" ->
             {"bitcoin", "buy", "when"}
      [] OTHER -> {}

crypto_projects ==
    {"bitcoin", "ethereum", "solana", "cardano", "polkadot", "avalanche", "chainlink", "polygon", "uniswap", "aave", "compound", "maker", "sushi", "curve", "yearn", "arbitrum", "optimism", "base", "bnb", "xrp", "dogecoin", "litecoin", "cosmos", "near", "fantom", "tron", "filecoin", "1inch", "pancakeswap", "gmx", "gains", "pendle", "aerodrome", "velodrome", "balancer", "shiba inu", "the graph"}

investment_keywords ==
    {"invest", "risk", "return", "strategy", "portfolio", "diversify", "allocation", "market", "bull", "bear", "trend", "analysis", "technical", "fundamental", "defi", "yield", "farming", "staking", "liquidity", "pool", "swap", "trade", "long", "short", "leverage", "margin", "volatility", "volume", "tokenomics", "supply", "inflation", "team", "roadmap", "whitepaper", "market cap"}

extract_field(m, field_name) ==
    CASE m = "Save strategy\nName: DCA Plan\nCategory: yield\nDescription: buy weekly\nRisk Level: low" /\ field_name = "name:" ->
             "DCA Plan"
      [] m = "Save strategy\nName: DCA Plan\nCategory: yield\nDescription: buy weekly\nRisk Level: low" /\ field_name = "category:" ->
             "yield"
      [] m = "Save strategy\nName: DCA Plan\nCategory: yield\nDescription: buy weekly\nRisk Level: low" /\ field_name = "description:" ->
             "buy weekly"
      [] m = "Save strategy\nName: DCA Plan\nCategory: yield\nDescription: buy weekly\nRisk Level: low" /\ field_name = "risk level:" ->
             "low"
      [] m = "Save strategy\nName: X" /\ field_name = "name:" ->
             "X"
      [] m = "Save strategy\nName:\nCategory: yield\nDescription: buy weekly\nRisk Level: low" /\ field_name = "name:" ->
             "Category: yield"
      [] m = "Save strategy\nName:\nCategory: yield\nDescription: buy weekly\nRisk Level: low" /\ field_name = "category:" ->
             "yield"
      [] m = "Save strategy\nName:\nCategory: yield\nDescription: buy weekly\nRisk Level: low" /\ field_name = "description:" ->
             "buy weekly"
      [] m = "Save strategy\nName:\nCategory: yield\nDescription: buy weekly\nRisk Level: low" /\ field_name = "risk level:" ->
             "low"
      [] m = "Save strategy\nName: S\nCategory: yield\nDescription: d\nRisk Level: low" /\ field_name = "name:" ->
             "S"
      [] m = "Save strategy\nName: S\nCategory: yield\nDescription: d\nRisk Level: low" /\ field_name = "category:" ->
             "yield"
      [] m = "Save strategy\nName: S\nCategory: yield\nDescription: d\nRisk Level: low" /\ field_name = "description:" ->
             "d"
      [] m = "Save strategy\nName: S\nCategory: yield\nDescription: d\nRisk Level: low" /\ field_name = "risk level:" ->
             "low"
      [] m = "Save strategy\nName: S\nCategory: yield\nDescription: d\nRisk Level: low\nSteps: buy, hold, sell" /\ field_name = "name:" ->
             "S"
      [] m = "Save strategy\nName: S\nCategory: yield\nDescription: d\nRisk Level: low\nSteps: buy, hold, sell" /\ field_name = "category:" ->
             "yield"
      [] m = "Save strategy\nName: S\nCategory: yield\nDescription: d\nRisk Level: low\nSteps: buy, hold, sell" /\ field_name = "description:" ->
             "d"
      [] m = "Save strategy\nName: S\nCategory: yield\nDescription: d\nRisk Level: low\nSteps: buy, hold, sell" /\ field_name = "risk level:" ->
             "low"
      [] m = "Save strategy\nName: S\nCategory: yield\nDescription: d\nRisk Level: low\nSteps: buy, hold, sell" /\ field_name = "steps:" ->
             "buy, hold, sell"
      [] m = "Save strategy\nName: S\nCategory: yield\nDescription: d\nRisk Level: low\nSteps:\n1. buy\n2. hold\n3. sell" /\ field_name = "name:" ->
             "S"
      [] m = "Save strategy\nName: S\nCategory: yield\nDescription: d\nRisk Level: low\nSteps:\n1. buy\n2. hold\n3. sell" /\ field_name = "category:" ->
             "yield"
      [] m = "Save strategy\nName: S\nCategory: yield\nDescription: d\nRisk Level: low\nSteps:\n1. buy\n2. hold\n3. sell" /\ field_name = "description:" ->
             "d"
      [] m = "Save strategy\nName: S\nCategory: yield\nDescription: d\nRisk Level: low\nSteps:\n1. buy\n2. hold\n3. sell" /\ field_name = "risk level:" ->
             "low"
      [] m = "Save strategy\nName: S\nCategory: yield\nDescription: d\nRisk Level: low\nSteps:\n1. buy\n2. hold\n3. sell" /\ field_name = "steps:" ->
             "1. buy"
      [] m = "Save strategy\nName: S\nCategory: yield\nDescription: d\nRisk Level: low\nSteps: as follows\n1. buy\n2. hold" /\ field_name = "name:" ->
             "S"
      [] m = "Save strategy\nName: S\nCategory: yield\nDescription: d\nRisk Level: low\nSteps: as follows\n1. buy\n2. hold" /\ field_name = "category:" ->
             "yield"
      [] m = "Save strategy\nName: S\nCategory: yield\nDescription: d\nRisk Level: low\nSteps: as follows\n1. buy\n2. hold" /\ field_name = "description:" ->
             "d"
      [] m = "Save strategy\nName: S\nCategory: yield\nDescription: d\nRisk Level: low\nSteps: as follows\n1. buy\n2. hold" /\ field_name = "risk level:" ->
             "low"
      [] m = "Save strategy\nName: S\nCategory: yield\nDescription: d\nRisk Level: low\nSteps: as follows\n1. buy\n2. hold" /\ field_name = "steps:" ->
             "as follows"
      [] m = "Save strategy\nName: S\nCategory: yield\nDescription: d\nRisk Level: low\nSteps:\n1. buy, then wait\n2. sell" /\ field_name = "name:" ->
             "S"
      [] m = "Save strategy\nName: S\nCategory: yield\nDescription: d\nRisk Level: low\nSteps:\n1. buy, then wait\n2. sell" /\ field_name = "category:" ->
             "yield"
      [] m = "Save strategy\nName: S\nCategory: yield\nDescription: d\nRisk Level: low\nSteps:\n1. buy, then wait\n2. sell" /\ field_name = "description:" ->
             "d"
      [] m = "Save strategy\nName: S\nCategory: yield\nDescription: d\nRisk Level: low\nSteps:\n1. buy, then wait\n2. sell" /\ field_name = "risk level:" ->
             "low"
      [] m = "Save strategy\nName: S\nCategory: yield\nDescription: d\nRisk Level: low\nSteps:\n1. buy, then wait\n2. sell" /\ field_name = "steps:" ->
             "1. buy, then wait"
      [] m = "Save strategy\nName: S\nCategory: yield\nDescription: d\nRisk Level: low\nTags: defi" /\ field_name = "name:" ->
             "S"
      [] m = "Save strategy\nName: S\nCategory: yield\nDescription: d\nRisk Level: low\nTags: defi" /\ field_name = "category:" ->
             "yield"
      [] m = "Save strategy\nName: S\nCategory: yield\nDescription: d\nRisk Level: low\nTags: defi" /\ field_name = "description:" ->
             "d"
      [] m = "Save strategy\nName: S\nCategory: yield\nDescription: d\nRisk Level: low\nTags: defi" /\ field_name = "risk level:" ->
             "low"
      [] m = "Save strategy\nName: S\nCategory: yield\nDescription: d\nRisk Level: low\nTags: defi" /\ field_name = "tags:" ->
             "defi"
      [] m = "Save strategy\nName: S\nCategory: yield\nDescription: d\nRisk Level: low\nTags: defi\nSteps: buy, hold, sell" /\ field_name = "name:" ->
             "S"
      [] m = "Save strategy\nName: S\nCategory: yield\nDescription: d\nRisk Level: low\nTags: defi\nSteps: buy, hold, sell" /\ field_name = "category:" ->
             "yield"
      [] m = "Save strategy\nName: S\nCategory: yield\nDescription: d\nRisk Level: low\nTags: defi\nSteps: buy, hold, sell" /\ field_name = "description:" ->
             "d"
      [] m = "Save strategy\nName: S\nCategory: yield\nDescription: d\nRisk Level: low\nTags: defi\nSteps: buy, hold, sell" /\ field_name = "risk level:" ->
             "low"
      [] m = "Save strategy\nName: S\nCategory: yield\nDescription: d\nRisk Level: low\nTags: defi\nSteps: buy, hold, sell" /\ field_name = "tags:" ->
             "defi"
      [] m = "Save strategy\nName: S\nCategory: yield\nDescription: d\nRisk Level: low\nTags: defi\nSteps: buy, hold, sell" /\ field_name = "steps:" ->
             "buy, hold, sell"
      [] m = "Save strategy\nName: S\nCategory: yield\nDescription: d\nRisk Level: low\nTags: defi\nSteps:\n1. buy\n2. hold\n3. sell" /\ field_name = "name:" ->
             "S"
      [] m = "Save strategy\nName: S\nCategory: yield\nDescription: d\nRisk Level: low\nTags: defi\nSteps:\n1. buy\n2. hold\n3. sell" /\ field_name = "category:" ->
             "yield"
      [] m = "Save strategy\nName: S\nCategory: yield\nDescription: d\nRisk Level: low\nTags: defi\nSteps:\n1. buy\n2. hold\n3. sell" /\ field_name = "description:" ->
             "d"
      [] m = "Save strategy\nName: S\nCategory: yield\nDescription: d\nRisk Level: low\nTags: defi\nSteps:\n1. buy\n2. hold\n3. sell" /\ field_name = "risk level:" ->
             "low"
      [] m = "Save strategy\nName: S\nCategory: yield\nDescription: d\nRisk Level: low\nTags: defi\nSteps:\n1. buy\n2. hold\n3. sell" /\ field_name = "tags:" ->
             "defi"
      [] m = "Save strategy\nName: S\nCategory: yield\nDescription: d\nRisk Level: low\nTags: defi\nSteps:\n1. buy\n2. hold\n3. sell" /\ field_name = "steps:" ->
             "1. buy"
      [] m = "Save strategy\nName: S\nCategory: yield\nDescription: d\nRisk Level: low\nTags: defi\nSteps: as follows\n1. buy\n2. hold" /\ field_name = "name:" ->
             "S"
      [] m = "Save strategy\nName: S\nCategory: yield\nDescription: d\nRisk Level: low\nTags: defi\nSteps: as follows\n1. buy\n2. hold" /\ field_name = "category:" ->
             "yield"
      [] m = "Save strategy\nName: S\nCategory: yield\nDescription: d\nRisk Level: low\nTags: defi\nSteps: as follows\n1. buy\n2. hold" /\ field_name = "description:" ->
             "d"
      [] m = "Save strategy\nName: S\nCategory: yield\nDescription: d\nRisk Level: low\nTags: defi\nSteps: as follows\n1. buy\n2. hold" /\ field_name = "risk level:" ->
             "low"
      [] m = "Save strategy\nName: S\nCategory: yield\nDescription: d\nRisk Level: low\nTags: defi\nSteps: as follows\n1. buy\n2. hold" /\ field_name = "tags:" ->
             "defi"
      [] m = "Save strategy\nName: S\nCategory: yield\nDescription: d\nRisk Level: low\nTags: defi\nSteps: as follows\n1. buy\n2. hold" /\ field_name = "steps:" ->
             "as follows"
      [] m = "Save strategy\nName: S\nCategory: yield\nDescription: d\nRisk Level: low\nTags: defi\nSteps:\n1. buy, then wait\n2. sell" /\ field_name = "name:" ->
             "S"
      [] m = "Save strategy\nName: S\nCategory: yield\nDescription: d\nRisk Level: low\nTags: defi\nSteps:\n1. buy, then wait\n2. sell" /\ field_name = "category:" ->
             "yield"
      [] m = "Save strategy\nName: S\nCategory: yield\nDescription: d\nRisk Level: low\nTags: defi\nSteps:\n1. buy, then wait\n2. sell" /\ field_name = "description:" ->
             "d"
      [] m = "Save strategy\nName: S\nCategory: yield\nDescription: d\nRisk Level: low\nTags: defi\nSteps:\n1. buy, then wait\n2. sell" /\ field_name = "risk level:" ->
             "low"
      [] m = "Save strategy\nName: S\nCategory: yield\nDescription: d\nRisk Level: low\nTags: defi\nSteps:\n1. buy, then wait\n2. sell" /\ field_name = "tags:" ->
             "defi"
      [] m = "Save strategy\nName: S\nCategory: yield\nDescription: d\nRisk Level: low\nTags: defi\nSteps:\n1. buy, then wait\n2. sell" /\ field_name = "steps:" ->
             "1. buy, then wait"
      [] m = "Save strategy\nName: S\nCategory: yield\nDescription: d\nRisk Level: low\nTags: defi, yield" /\ field_name = "name:" ->
             "S"
      [] m = "Save strategy\nName: S\nCategory: yield\nDescription: d\nRisk Level: low\nTags: defi, yield" /\ field_name = "category:" ->
             "yield"
      [] m = "Save strategy\nName: S\nCategory: yield\nDescription: d\nRisk Level: low\nTags: defi, yield" /\ field_name = "description:" ->
             "d"
      [] m = "Save strategy\nName: S\nCategory: yield\nDescription: d\nRisk Level: low\nTags: defi, yield" /\ field_name = "risk level:" ->
             "low"
      [] m = "Save strategy\nName: S\nCategory: yield\nDescription: d\nRisk Level: low\nTags: defi, yield" /\ field_name = "tags:" ->
             "defi, yield"
      [] m = "Save strategy\nName: S\nCategory: yield\nDescription: d\nRisk Level: low\nTags: defi, yield\nSteps: buy, hold, sell" /\ field_name = "name:" ->
             "S"
      [] m = "Save strategy\nName: S\nCategory: yield\nDescription: d\nRisk Level: low\nTags: defi, yield\nSteps: buy, hold, sell" /\ field_name = "category:" ->
             "yield"
      [] m = "Save strategy\nName: S\nCategory: yield\nDescription: d\nRisk Level: low\nTags: defi, yield\nSteps: buy, hold, sell" /\ field_name = "description:" ->
             "d"
      [] m = "Save strategy\nName: S\nCategory: yield\nDescription: d\nRisk Level: low\nTags: defi, yield\nSteps: buy, hold, sell" /\ field_name = "risk level:" ->
             "low"
      [] m = "Save strategy\nName: S\nCategory: yield\nDescription: d\nRisk Level: low\nTags: defi, yield\nSteps: buy, hold, sell" /\ field_name = "tags:" ->
             "defi, yield"
      [] m = "Save strategy\nName: S\nCategory: yield\nDescription: d\nRisk Level: low\nTags: defi, yield\nSteps: buy, hold, sell" /\ field_name = "steps:" ->
             "buy, hold, sell"
      [] m = "Save strategy\nName: S\nCategory: yield\nDescription: d\nRisk Level: low\nTags: defi, yield\nSteps:\n1. buy\n2. hold\n3. sell" /\ field_name = "name:" ->
             "S"
      [] m = "Save strategy\nName: S\nCategory: yield\nDescription: d\nRisk Level: low\nTags: defi, yield\nSteps:\n1. buy\n2. hold\n3. sell" /\ field_name = "category:" ->
             "yield"
      [] m = "Save strategy\nName: S\nCategory: yield\nDescription: d\nRisk Level: low\nTags: defi, yield\nSteps:\n1. buy\n2. hold\n3. sell" /\ field_name = "description:" ->
             "d"
      [] m = "Save strategy\nName: S\nCategory: yield\nDescription: d\nRisk Level: low\nTags: defi, yield\nSteps:\n1. buy\n2. hold\n3. sell" /\ field_name = "risk level:" ->
             "low"
      [] m = "Save strategy\nName: S\nCategory: yield\nDescription: d\nRisk Level: low\nTags: defi, yield\nSteps:\n1. buy\n2. hold\n3. sell" /\ field_name = "tags:" ->
             "defi, yield"
      [] m = "Save strategy\nName: S\nCategory: yield\nDescription: d\nRisk Level: low\nTags: defi, yield\nSteps:\n1. buy\n2. hold\n3. sell" /\ field_name = "steps:" ->
             "1. buy"
      [] m = "Save strategy\nName: S\nCategory: yield\nDescription: d\nRisk Level: low\nTags: defi, yield\nSteps: as follows\n1. buy\n2. hold" /\ field_name = "name:" ->
             "S"
      [] m = "Save strategy\nName: S\nCategory: yield\nDescription: d\nRisk Level: low\nTags: defi, yield\nSteps: as follows\n1. buy\n2. hold" /\ field_name = "category:" ->
             "yield"
      [] m = "Save strategy\nName: S\nCategory: yield\nDescription: d\nRisk Level: low\nTags: defi, yield\nSteps: as follows\n1. buy\n2. hold" /\ field_name = "description:" ->
             "d"
      [] m = "Save strategy\nName: S\nCategory: yield\nDescription: d\nRisk Level: low\nTags: defi, yield\nSteps: as follows\n1. buy\n2. hold" /\ field_name = "risk level:" ->
             "low"
      [] m = "Save strategy\nName: S\nCategory: yield\nDescription: d\nRisk Level: low\nTags: defi, yield\nSteps: as follows\n1. buy\n2. hold" /\ field_name = "tags:" ->
             "defi, yield"
      [] m = "Save strategy\nName: S\nCategory: yield\nDescription: d\nRisk Level: low\nTags: defi, yield\nSteps: as follows\n1. buy\n2. hold" /\ field_name = "steps:" ->
             "as follows"
      [] m = "Save strategy\nName: S\nCategory: yield\nDescription: d\nRisk Level: low\nTags: defi, yield\nSteps:\n1. buy, then wait\n2. sell" /\ field_name = "name:" ->
             "S"
      [] m = "Save strategy\nName: S\nCategory: yield\nDescription: d\nRisk Level: low\nTags: defi, yield\nSteps:\n1. buy, then wait\n2. sell" /\ field_name = "category:" ->
             "yield"
      [] m = "Save strategy\nName: S\nCategory: yield\nDescription: d\nRisk Level: low\nTags: defi, yield\nSteps:\n1. buy, then wait\n2. sell" /\ field_name = "description:" ->
             "d"
      [] m = "Save strategy\nName: S\nCategory: yield\nDescription: d\nRisk Level: low\nTags: defi, yield\nSteps:\n1. buy, then wait\n2. sell" /\ field_name = "risk level:" ->
             "low"
      [] m = "Save strategy\nName: S\nCategory: yield\nDescription: d\nRisk Level: low\nTags: defi, yield\nSteps:\n1. buy, then wait\n2. sell" /\ field_name = "tags:" ->
             "defi, yield"
      [] m = "Save strategy\nName: S\nCategory: yield\nDescription: d\nRisk Level: low\nTags: defi, yield\nSteps:\n1. buy, then wait\n2. sell" /\ field_name = "steps:" ->
             "1. buy, then wait"
      [] m = "Save strategy\nName: S\nCategory: yield\nDescription: d\nRisk Level: low\nTags: defi,,yield" /\ field_name = "name:" ->
             "S"
      [] m = "Save strategy\nName: S\nCategory: yield\nDescription: d\nRisk Level: low\nTags: defi,,yield" /\ field_name = "category:" ->
             "yield"
      [] m = "Save strategy\nName: S\nCategory: yield\nDescription: d\nRisk Level: low\nTags: defi,,yield" /\ field_name = "description:" ->
             "d"
      [] m = "Save strategy\nName: S\nCategory: yield\nDescription: d\nRisk Level: low\nTags: defi,,yield" /\ field_name = "risk level:" ->
             "low"
      [] m = "Save strategy\nName: S\nCategory: yield\nDescription: d\nRisk Level: low\nTags: defi,,yield" /\ field_name = "tags:" ->
             "defi,,yield"
      [] m = "Save strategy\nName: S\nCategory: yield\nDescription: d\nRisk Level: low\nTags: defi,,yield\nSteps: buy, hold, sell" /\ field_name = "name:" ->
             "S"
      [] m = "Save strategy\nName: S\nCategory: yield\nDescription: d\nRisk Level: low\nTags: defi,,yield\nSteps: buy, hold, sell" /\ field_name = "category:" ->
             "yield"
      [] m = "Save strategy\nName: S\nCategory: yield\nDescription: d\nRisk Level: low\nTags: defi,,yield\nSteps: buy, hold, sell" /\ field_name = "description:" ->
             "d"
      [] m = "Save strategy\nName: S\nCategory: yield\nDescription: d\nRisk Level: low\nTags: defi,,yield\nSteps: buy, hold, sell" /\ field_name = "risk level:" ->
             "low"
      [] m = "Save strategy\nName: S\nCategory: yield\nDescription: d\nRisk Level: low\nTags: defi,,yield\nSteps: buy, hold, sell" /\ field_name = "tags:" ->
             "defi,,yield"
      [] m = "Save strategy\nName: S\nCategory: yield\nDescription: d\nRisk Level: low\nTags: defi,,yield\nSteps: buy, hold, sell" /\ field_name = "steps:" ->
             "buy, hold, sell"
      [] m = "Save strategy\nName: S\nCategory: yield\nDescription: d\nRisk Level: low\nTags: defi,,yield\nSteps:\n1. buy\n2. hold\n3. sell" /\ field_name = "name:" ->
             "S"
      [] m = "Save strategy\nName: S\nCategory: yield\nDescription: d\nRisk Level: low\nTags: defi,,yield\nSteps:\n1. buy\n2. hold\n3. sell" /\ field_name = "category:" ->
             "yield"
      [] m = "Save strategy\nName: S\nCategory: yield\nDescription: d\nRisk Level: low\nTags: defi,,yield\nSteps:\n1. buy\n2. hold\n3. sell" /\ field_name = "description:" ->
             "d"
      [] m = "Save strategy\nName: S\nCategory: yield\nDescription: d\nRisk Level: low\nTags: defi,,yield\nSteps:\n1. buy\n2. hold\n3. sell" /\ field_name = "risk level:" ->
             "low"
      [] m = "Save strategy\nName: S\nCategory: yield\nDescription: d\nRisk Level: low\nTags: defi,,yield\nSteps:\n1. buy\n2. hold\n3. sell" /\ field_name = "tags:" ->
             "defi,,yield"
      [] m = "Save strategy\nName: S\nCategory: yield\nDescription: d\nRisk Level: low\nTags: defi,,yield\nSteps:\n1. buy\n2. hold\n3. sell" /\ field_name = "steps:" ->
             "1. buy"
      [] m = "Save strategy\nName: S\nCategory: yield\nDescription: d\nRisk Level: low\nTags: defi,,yield\nSteps: as follows\n1. buy\n2. hold" /\ field_name = "name:" ->
             "S"
      [] m = "Save strategy\nName: S\nCategory: yield\nDescription: d\nRisk Level: low\nTags: defi,,yield\nSteps: as follows\n1. buy\n2. hold" /\ field_name = "category:" ->
             "yield"
      [] m = "Save strategy\nName: S\nCategory: yield\nDescription: d\nRisk Level: low\nTags: defi,,yield\nSteps: as follows\n1. buy\n2. hold" /\ field_name = "description:" ->
             "d"
      [] m = "Save strategy\nName: S\nCategory: yield\nDescription: d\nRisk Level: low\nTags: defi,,yield\nSteps: as follows\n1. buy\n2. hold" /\ field_name = "risk level:" ->
             "low"
      [] m = "Save strategy\nName: S\nCategory: yield\nDescription: d\nRisk Level: low\nTags: defi,,yield\nSteps: as follows\n1. buy\n2. hold" /\ field_name = "tags:" ->
             "defi,,yield"
      [] m = "Save strategy\nName: S\nCategory: yield\nDescription: d\nRisk Level: low\nTags: defi,,yield\nSteps: as follows\n1. buy\n2. hold" /\ field_name = "steps:" ->
             "as follows"
      [] m = "Save strategy\nName: S\nCategory: yield\nDescription: d\nRisk Level: low\nTags: defi,,yield\nSteps:\n1. buy, then wait\n2. sell" /\ field_name = "name:" ->
             "S"
      [] m = "Save strategy\nName: S\nCategory: yield\nDescription: d\nRisk Level: low\nTags: defi,,yield\nSteps:\n1. buy, then wait\n2. sell" /\ field_name = "category:" ->
             "yield"
      [] m = "Save strategy\nName: S\nCategory: yield\nDescription: d\nRisk Level: low\nTags: defi,,yield\nSteps:\n1. buy, then wait\n2. sell" /\ field_name = "description:" ->
             "d"
      [] m = "Save strategy\nName: S\nCategory: yield\nDescription: d\nRisk Level: low\nTags: defi,,yield\nSteps:\n1. buy, then wait\n2. sell" /\ field_name = "risk level:" ->
             "low"
      [] m = "Save strategy\nName: S\nCategory: yield\nDescription: d\nRisk Level: low\nTags: defi,,yield\nSteps:\n1. buy, then wait\n2. sell" /\ field_name = "tags:" ->
             "defi,,yield"
      [] m = "Save strategy\nName: S\nCategory: yield\nDescription: d\nRisk Level: low\nTags: defi,,yield\nSteps:\n1. buy, then wait\n2. sell" /\ field_name = "steps:" ->
             "1. buy, then wait"
      [] m = "Save strategy\nName: S\nCategory: yield\nDescription: d\nRisk Level: low\nTags: defi," /\ field_name = "name:" ->
             "S"
      [] m = "Save strategy\nName: S\nCategory: yield\nDescription: d\nRisk Level: low\nTags: defi," /\ field_name = "category:" ->
             "yield"
      [] m = "Save strategy\nName: S\nCategory: yield\nDescription: d\nRisk Level: low\nTags: defi," /\ field_name = "description:" ->
             "d"
      [] m = "Save strategy\nName: S\nCategory: yield\nDescription: d\nRisk Level: low\nTags: defi," /\ field_name = "risk level:" ->
             "low"
      [] m = "Save strategy\nName: S\nCategory: yield\nDescription: d\nRisk Level: low\nTags: defi," /\ field_name = "tags:" ->
             "defi,"
      [] m = "Save strategy\nName: S\nCategory: yield\nDescription: d\nRisk Level: low\nTags: defi,\nSteps: buy, hold, sell" /\ field_name = "name:" ->
             "S"
      [] m = "Save strategy\nName: S\nCategory: yield\nDescription: d\nRisk Level: low\nTags: defi,\nSteps: buy, hold, sell" /\ field_name = "category:" ->
             "yield"
      [] m = "Save strategy\nName: S\nCategory: yield\nDescription: d\nRisk Level: low\nTags: defi,\nSteps: buy, hold, sell" /\ field_name = "description:" ->
             "d"
      [] m = "Save strategy\nName: S\nCategory: yield\nDescription: d\nRisk Level: low\nTags: defi,\nSteps: buy, hold, sell" /\ field_name = "risk level:" ->
             "low"
      [] m = "Save strategy\nName: S\nCategory: yield\nDescription: d\nRisk Level: low\nTags: defi,\nSteps: buy, hold, sell" /\ field_name = "tags:" ->
             "defi,"
      [] m = "Save strategy\nName: S\nCategory: yield\nDescription: d\nRisk Level: low\nTags: defi,\nSteps: buy, hold, sell" /\ field_name = "steps:" ->
             "buy, hold, sell"
      [] m = "Save strategy\nName: S\nCategory: yield\nDescription: d\nRisk Level: low\nTags: defi,\nSteps:\n1. buy\n2. hold\n3. sell" /\ field_name = "name:" ->
             "S"
      [] m = "Save strategy\nName: S\nCategory: yield\nDescription: d\nRisk Level: low\nTags: defi,\nSteps:\n1. buy\n2. hold\n3. sell" /\ field_name = "category:" ->
             "yield"
      [] m = "Save strategy\nName: S\nCategory: yield\nDescription: d\nRisk Level: low\nTags: defi,\nSteps:\n1. buy\n2. hold\n3. sell" /\ field_name = "description:" ->
             "d"
      [] m = "Save strategy\nName: S\nCategory: yield\nDescription: d\nRisk Level: low\nTags: defi,\nSteps:\n1. buy\n2. hold\n3. sell" /\ field_name = "risk level:" ->
             "low"
      [] m = "Save strategy\nName: S\nCategory: yield\nDescription: d\nRisk Level: low\nTags: defi,\nSteps:\n1. buy\n2. hold\n3. sell" /\ field_name = "tags:" ->
             "defi,"
      [] m = "Save strategy\nName: S\nCategory: yield\nDescription: d\nRisk Level: low\nTags: defi,\nSteps:\n1. buy\n2. hold\n3. sell" /\ field_name = "steps:" ->
             "1. buy"
      [] m = "Save strategy\nName: S\nCategory: yield\nDescription: d\nRisk Level: low\nTags: defi,\nSteps: as follows\n1. buy\n2. hold" /\ field_name = "name:" ->
             "S"
      [] m = "Save strategy\nName: S\nCategory: yield\nDescription: d\nRisk Level: low\nTags: defi,\nSteps: as follows\n1. buy\n2. hold" /\ field_name = "category:" ->
             "yield"
      [] m = "Save strategy\nName: S\nCategory: yield\nDescription: d\nRisk Level: low\nTags: defi,\nSteps: as follows\n1. buy\n2. hold" /\ field_name = "description:" ->
             "d"
      [] m = "Save strategy\nName: S\nCategory: yield\nDescription: d\nRisk Level: low\nTags: defi,\nSteps: as follows\n1. buy\n2. hold" /\ field_name = "risk level:" ->
             "low"
      [] m = "Save strategy\nName: S\nCategory: yield\nDescription: d\nRisk Level: low\nTags: defi,\nSteps: as follows\n1. buy\n2. hold" /\ field_name = "tags:" ->
             "defi,"
      [] m = "Save strategy\nName: S\nCategory: yield\nDescription: d\nRisk Level: low\nTags: defi,\nSteps: as follows\n1. buy\n2. hold" /\ field_name = "steps:" ->
             "as follows"
      [] m = "Save strategy\nName: S\nCategory: yield\nDescription: d\nRisk Level: low\nTags: defi,\nSteps:\n1. buy, then wait\n2. sell" /\ field_name = "name:" ->
             "S"
      [] m = "Save strategy\nName: S\nCategory: yield\nDescription: d\nRisk Level: low\nTags: defi,\nSteps:\n1. buy, then wait\n2. sell" /\ field_name = "category:" ->
             "yield"
      [] m = "Save strategy\nName: S\nCategory: yield\nDescription: d\nRisk Level: low\nTags: defi,\nSteps:\n1. buy, then wait\n2. sell" /\ field_name = "description:" ->
             "d"
      [] m = "Save strategy\nName: S\nCategory: yield\nDescription: d\nRisk Level: low\nTags: defi,\nSteps:\n1. buy, then wait\n2. sell" /\ field_name = "risk level:" ->
             "low"
      [] m = "Save strategy\nName: S\nCategory: yield\nDescription: d\nRisk Level: low\nTags: defi,\nSteps:\n1. buy, then wait\n2. sell" /\ field_name = "tags:" ->
             "defi,"
      [] m = "Save strategy\nName: S\nCategory: yield\nDescription: d\nRisk Level: low\nTags: defi,\nSteps:\n1. buy, then wait\n2. sell" /\ field_name = "steps:" ->
             "1. buy, then wait"
      [] m = "Save strategy\nName: S\nCategory: yield\nDescription: d\nRisk Level: low\nTags:" /\ field_name = "name:" ->
             "S"
      [] m = "Save strategy\nName: S\nCategory: yield\nDescription: d\nRisk Level: low\nTags:" /\ field_name = "category:" ->
             "yield"
      [] m = "Save strategy\nName: S\nCategory: yield\nDescription: d\nRisk Level: low\nTags:" /\ field_name = "description:" ->
             "d"
      [] m = "Save strategy\nName: S\nCategory: yield\nDescription: d\nRisk Level: low\nTags:" /\ field_name = "risk level:" ->
             "low"
      [] m = "Save strategy\nName: S\nCategory: yield\nDescription: d\nRisk Level: low\nTags:\nSteps: buy, hold, sell" /\ field_name = "name:" ->
             "S"
      [] m = "Save strategy\nName: S\nCategory: yield\nDescription: d\nRisk Level: low\nTags:\nSteps: buy, hold, sell" /\ field_name = "category:" ->
             "yield"
      [] m = "Save strategy\nName: S\nCategory: yield\nDescription: d\nRisk Level: low\nTags:\nSteps: buy, hold, sell" /\ field_name = "description:" ->
             "d"
      [] m = "Save strategy\nName: S\nCategory: yield\nDescription: d\nRisk Level: low\nTags:\nSteps: buy, hold, sell" /\ field_name = "risk level:" ->
             "low"
      [] m = "Save strategy\nName: S\nCategory: yield\nDescription: d\nRisk Level: low\nTags:\nSteps: buy, hold, sell" /\ field_name = "tags:" ->
             "Steps: buy, hold, sell"
      [] m = "Save strategy\nName: S\nCategory: yield\nDescription: d\nRisk Level: low\nTags:\nSteps: buy, hold, sell" /\ field_name = "steps:" ->
             "buy, hold, sell"
      [] m = "Save strategy\nName: S\nCategory: yield\nDescription: d\nRisk Level: low\nTags:\nSteps:\n1. buy\n2. hold\n3. sell" /\ field_name = "name:" ->
             "S"
      [] m = "Save strategy\nName: S\nCategory: yield\nDescription: d\nRisk Level: low\nTags:\nSteps:\n1. buy\n2. hold\n3. sell" /\ field_name = "category:" ->
             "yield"
      [] m = "Save strategy\nName: S\nCategory: yield\nDescription: d\nRisk Level: low\nTags:\nSteps:\n1. buy\n2. hold\n3. sell" /\ field_name = "description:" ->
             "d"
      [] m = "Save strategy\nName: S\nCategory: yield\nDescription: d\nRisk Level: low\nTags:\nSteps:\n1. buy\n2. hold\n3. sell" /\ field_name = "risk level:" ->
             "low"
      [] m = "Save strategy\nName: S\nCategory: yield\nDescription: d\nRisk Level: low\nTags:\nSteps:\n1. buy\n2. hold\n3. sell" /\ field_name = "tags:" ->
             "Steps:"
      [] m = "Save strategy\nName: S\nCategory: yield\nDescription: d\nRisk Level: low\nTags:\nSteps:\n1. buy\n2. hold\n3. sell" /\ field_name = "steps:" ->
             "1. buy"
      [] m = "Save strategy\nName: S\nCategory: yield\nDescription: d\nRisk Level: low\nTags:\nSteps: as follows\n1. buy\n2. hold" /\ field_name = "name:" ->
             "S"
      [] m = "Save strategy\nName: S\nCategory: yield\nDescription: d\nRisk Level: low\nTags:\nSteps: as follows\n1. buy\n2. hold" /\ field_name = "category:" ->
             "yield"
      [] m = "Save strategy\nName: S\nCategory: yield\nDescription: d\nRisk Level: low\nTags:\nSteps: as follows\n1. buy\n2. hold" /\ field_name = "description:" ->
             "d"
      [] m = "Save strategy\nName: S\nCategory: yield\nDescription: d\nRisk Level: low\nTags:\nSteps: as follows\n1. buy\n2. hold" /\ field_name = "risk level:" ->
             "low"
      [] m = "Save strategy\nName: S\nCategory: yield\nDescription: d\nRisk Level: low\nTags:\nSteps: as follows\n1. buy\n2. hold" /\ field_name = "tags:" ->
             "Steps: as follows"
      [] m = "Save strategy\nName: S\nCategory: yield\nDescription: d\nRisk Level: low\nTags:\nSteps: as follows\n1. buy\n2. hold" /\ field_name = "steps:" ->
             "as follows"
      [] m = "Save strategy\nName: S\nCategory: yield\nDescription: d\nRisk Level: low\nTags:\nSteps:\n1. buy, then wait\n2. sell" /\ field_name = "name:" ->
             "S"
      [] m = "Save strategy\nName: S\nCategory: yield\nDescription: d\nRisk Level: low\nTags:\nSteps:\n1. buy, then wait\n2. sell" /\ field_name = "category:" ->
             "yield"
      [] m = "Save strategy\nName: S\nCategory: yield\nDescription: d\nRisk Level: low\nTags:\nSteps:\n1. buy, then wait\n2. sell" /\ field_name = "description:" ->
             "d"
      [] m = "Save strategy\nName: S\nCategory: yield\nDescription: d\nRisk Level: low\nTags:\nSteps:\n1. buy, then wait\n2. sell" /\ field_name = "risk level:" ->
             "low"
      [] m = "Save strategy\nName: S\nCategory: yield\nDescription: d\nRisk Level: low\nTags:\nSteps:\n1. buy, then wait\n2. sell" /\ field_name = "tags:" ->
             "Steps:"
      [] m = "Save strategy\nName: S\nCategory: yield\nDescription: d\nRisk Level: low\nTags:\nSteps:\n1. buy, then wait\n2. sell" /\ field_name = "steps:" ->
             "1. buy, then wait"
      [] OTHER -> None

split_trim(s) ==
    CASE s = "1. buy, then wait" ->
             <<"1. buy", "then wait">>
      [] s = "Steps: buy, hold, sell" ->
             <<"Steps: buy", "hold", "sell">>
      [] s = "buy, hold, sell" ->
             <<"buy", "hold", "sell">>
      [] s = "defi," ->
             <<"defi", "">>
      [] s = "defi, yield" ->
             <<"defi", "yield">>
      [] s = "defi,,yield" ->
             <<"defi", "", "yield">>
      [] OTHER -> <<s>>

comma_values ==
    {"1. buy, then wait", "Steps: buy, hold, sell", "buy, hold, sell", "defi,", "defi, yield", "defi,,yield"}

items_regex(m, field_name) ==
    CASE m = "Save strategy\nName: S\nCategory: yield\nDescription: d\nRisk Level: low\nSteps:\n1. buy\n2. hold\n3. sell" /\ field_name = "steps:" ->
             <<"hold", "sell">>
      [] m = "Save strategy\nName: S\nCategory: yield\nDescription: d\nRisk Level: low\nSteps: as follows\n1. buy\n2. hold" /\ field_name = "steps:" ->
             <<"buy", "hold">>
      [] m = "Save strategy\nName: S\nCategory: yield\nDescription: d\nRisk Level: low\nSteps:\n1. buy, then wait\n2. sell" /\ field_name = "steps:" ->
             <<"sell">>
      [] m = "Save strategy\nName: S\nCategory: yield\nDescription: d\nRisk Level: low\nTags: defi\nSteps:\n1. buy\n2. hold\n3. sell" /\ field_name = "steps:" ->
             <<"hold", "sell">>
      [] m = "Save strategy\nName: S\nCategory: yield\nDescription: d\nRisk Level: low\nTags: defi\nSteps: as follows\n1. buy\n2. hold" /\ field_name = "steps:" ->
             <<"buy", "hold">>
      [] m = "Save strategy\nName: S\nCategory: yield\nDescription: d\nRisk Level: low\nTags: defi\nSteps:\n1. buy, then wait\n2. sell" /\ field_name = "steps:" ->
             <<"sell">>
      [] m = "Save strategy\nName: S\nCategory: yield\nDescription: d\nRisk Level: low\nTags: defi, yield\nSteps:\n1. buy\n2. hold\n3. sell" /\ field_name = "steps:" ->
             <<"hold", "sell">>
      [] m = "Save strategy\nName: S\nCategory: yield\nDescription: d\nRisk Level: low\nTags: defi, yield\nSteps: as follows\n1. buy\n2. hold" /\ field_name = "steps:" ->
             <<"buy", "hold">>
      [] m = "Save strategy\nName: S\nCategory: yield\nDescription: d\nRisk Level: low\nTags: defi, yield\nSteps:\n1. buy, then wait\n2. sell" /\ field_name = "steps:" ->
             <<"sell">>
      [] m = "Save strategy\nName: S\nCategory: yield\nDescription: d\nRisk Level: low\nTags: defi,,yield\nSteps:\n1. buy\n2. hold\n3. sell" /\ field_name = "steps:" ->
             <<"hold", "sell">>
      [] m = "Save strategy\nName: S\nCategory: yield\nDescription: d\nRisk Level: low\nTags: defi,,yield\nSteps: as follows\n1. buy\n2. hold" /\ field_name = "steps:" ->
             <<"buy", "hold">>
      [] m = "Save strategy\nName: S\nCategory: yield\nDescription: d\nRisk Level: low\nTags: defi,,yield\nSteps:\n1. buy, then wait\n2. sell" /\ field_name = "steps:" ->
             <<"sell">>
      [] m = "Save strategy\nName: S\nCategory: yield\nDescription: d\nRisk Level: low\nTags: defi,\nSteps:\n1. buy\n2. hold\n3. sell" /\ field_name = "steps:" ->
             <<"hold", "sell">>
      [] m = "Save strategy\nName: S\nCategory: yield\nDescription: d\nRisk Level: low\nTags: defi,\nSteps: as follows\n1. buy\n2. hold" /\ field_name = "steps:" ->
             <<"buy", "hold">>
      [] m = "Save strategy\nName: S\nCategory: yield\nDescription: d\nRisk Level: low\nTags: defi,\nSteps:\n1. buy, then wait\n2. sell" /\ field_name = "steps:" ->
             <<"sell">>
      [] m = "Save strategy\nName: S\nCategory: yield\nDescription: d\nRisk Level: low\nTags:\nSteps:\n1. buy\n2. hold\n3. sell" /\ field_name = "tags:" ->
             <<"buy", "hold", "sell">>
      [] m = "Save strategy\nName: S\nCategory: yield\nDescription: d\nRisk Level: low\nTags:\nSteps:\n1. buy\n2. hold\n3. sell" /\ field_name = "steps:" ->
             <<"hold", "sell">>
      [] m = "Save strategy\nName: S\nCategory: yield\nDescription: d\nRisk Level: low\nTags:\nSteps: as follows\n1. buy\n2. hold" /\ field_name = "tags:" ->
             <<"buy", "hold">>
      [] m = "Save strategy\nName: S\nCategory: yield\nDescription: d\nRisk Level: low\nTags:\nSteps: as follows\n1. buy\n2. hold" /\ field_name = "steps:" ->
             <<"buy", "hold">>
      [] m = "Save strategy\nName: S\nCategory: yield\nDescription: d\nRisk Level: low\nTags:\nSteps:\n1. buy, then wait\n2. sell" /\ field_name = "tags:" ->
             <<"buy, then wait", "sell">>
      [] m = "Save strategy\nName: S\nCategory: yield\nDescription: d\nRisk Level: low\nTags:\nSteps:\n1. buy, then wait\n2. sell" /\ field_name = "steps:" ->
             <<"sell">>
      [] OTHER -> <<>>

contains(m, w) == w \in ContainedWords(m)

\* ---- format_date_for_api, lines 917-957
DateSeparators == {"-", "/", "."}

\* str::split on the separator characters (line 919)
split_date(s) ==
    LET F[i \in 0..Len(s)] ==
            IF i = 0 THEN << <<>> >>
            ELSE IF s[i] \in DateSeparators
                 THEN Append(F[i - 1], <<>>)
                 ELSE [F[i - 1] EXCEPT ![Len(F[i - 1])] = Append(@, s[i])]
    IN  F[Len(s)]

pad2(str) == IF Len(str) = 1 THEN <<"0">> \o str ELSE str

format_date_for_api(date_str) ==
    LET date_parts == split_date(date_str)
    IN  IF Len(date_parts) # 3
        THEN [ok |-> FALSE, value |-> <<>>]
        ELSE LET dmy ==
                     IF Len(date_parts[1]) = 4
                     THEN <<date_parts[3], date_parts[2], date_parts[1]>>
                     ELSE IF Len(date_parts[3]) = 4
                     THEN <<date_parts[1], date_parts[2], date_parts[3]>>
                     ELSE IF Len(date_parts[3]) = 2
                     THEN <<date_parts[1], date_parts[2],
                            <<"2", "0">> \o date_parts[3]>>
                     ELSE <<>>
             IN  IF dmy = <<>>
                 THEN [ok |-> FALSE, value |-> <<>>]
                 ELSE [ok |-> TRUE,
                       value |-> pad2(dmy[1]) \o <<"-">> \o pad2(dmy[2])
                                 \o <<"-">> \o dmy[3]]

\* the date 30 days before Utc::now(), formatted dd-mm-yyyy (lines 598-601)
thirty_days_ago == <<"0", "3", "-", "1", "0", "-", "2", "0", "2", "6">>

\* ---- map_crypto_name_to_id, lines 862-880
map_crypto_name_to_id(name) ==
    CASE name \in {"btc", "bitcoin"} -> "bitcoin"
      [] name \in {"eth", "ethereum"} -> "ethereum"
      [] name \in {"sol", "solana"} -> "solana"
      [] name \in {"ada", "cardano"} -> "cardano"
      [] name \in {"dot", "polkadot"} -> "polkadot"
      [] name \in {"doge", "dogecoin"} -> "dogecoin"
      [] name \in {"xrp", "ripple"} -> "ripple"
      [] name \in {"ltc", "litecoin"} -> "litecoin"
      [] name \in {"link", "chainlink"} -> "chainlink"
      [] name \in {"uni", "uniswap"} -> "uniswap"
      [] name = "aave" -> "aave"
      [] name \in {"matic", "polygon"} -> "matic-network"
      [] name \in {"avax", "avalanche"} -> "avalanche-2"
      [] name \in {"aero", "aerodrome"} -> "aerodrome-finance"
      [] OTHER -> name

\* first letter upper-cased, for the names of the corpus (line 912)
capitalize(name) ==
    CASE name = "foocoin" -> "Foocoin"
      [] OTHER -> name

\* ---- get_display_name, lines 883-914
get_display_name(name) ==
    CASE name = "btc" -> "Bitcoin (BTC)"
      [] name = "bitcoin" -> "Bitcoin"
      [] name = "eth" -> "Ethereum (ETH)"
      [] name = "ethereum" -> "Ethereum"
      [] name = "sol" -> "Solana (SOL)"
      [] name = "solana" -> "Solana"
      [] name = "ada" -> "Cardano (ADA)"
      [] name = "cardano" -> "Cardano"
      [] name = "dot" -> "Polkadot (DOT)"
      [] name = "polkadot" -> "Polkadot"
      [] name = "doge" -> "Dogecoin (DOGE)"
      [] name = "dogecoin" -> "Dogecoin"
      [] name = "xrp" -> "XRP"
      [] name = "ripple" -> "XRP (Ripple)"
      [] name = "ltc" -> "Litecoin (LTC)"
      [] name = "litecoin" -> "Litecoin"
      [] name = "link" -> "Chainlink (LINK)"
      [] name = "chainlink" -> "Chainlink"
      [] name = "uni" -> "Uniswap (UNI)"
      [] name = "uniswap" -> "Uniswap"
      [] name = "aave" -> "Aave"
      [] name = "matic" -> "Polygon (MATIC)"
      [] name = "polygon" -> "Polygon"
      [] name = "avax" -> "Avalanche (AVAX)"
      [] name = "avalanche" -> "Avalanche"
      [] name = "aero" -> "Aerodrome (AERO)"
      [] name = "aerodrome" -> "Aerodrome"
      [] OTHER -> capitalize(name)

\* ---- the current-price cascade, lines 638-667: the first regex that
\* matches decides; a match without a captured coin leaves crypto empty and
\* the later regexes are not tried (else-if chain).
first_group(caps) ==
    IF \E i \in DOMAIN caps.g : caps.g[i] # None
    THEN caps.g[CHOOSE i \in DOMAIN caps.g :
                  /\ caps.g[i] # None
                  /\ \A j \in 1..(i - 1) : caps.g[j] = None]
    ELSE ""

extract_crypto(m) ==
    IF price_regex(m).matched THEN first_group(price_regex(m))
    ELSE IF common_crypto_regex(m).matched
         THEN first_group(common_crypto_regex(m))
    ELSE IF entry_points_regex(m).matched
         THEN first_group(entry_points_regex(m))
    ELSE IF direct_regex(m).matched THEN first_group(direct_regex(m))
    ELSE ""

\* lines 706-716
is_entry_points_query_phrases_only(m) ==
    \/ contains(m, "entry points")
    \/ contains(m, "entering points")
    \/ contains(m, "entry point")
    \/ contains(m, "entering point")

is_entry_points_query(m) ==
    \/ contains(m, "entry points")
    \/ contains(m, "entering points")
    \/ contains(m, "entry point")
    \/ contains(m, "entering point")
    \/ (contains(m, "entry") /\ contains(m, "price"))
    \/ (contains(m, "enter") /\ contains(m, "price"))
    \/ (contains(m, "buy") /\ contains(m, "level"))
    \/ (contains(m, "when") /\ contains(m, "buy"))
    \/ (contains(m, "good") /\ contains(m, "entry"))

\* handle_strategy_creation, lines 345-351
is_strategy_request(m) ==
    \/ (contains(m, "save") /\ contains(m, "strategy"))
    \/ (contains(m, "add") /\ contains(m, "strategy"))
    \/ (contains(m, "create") /\ contains(m, "strategy"))
    \/ (contains(m, "store") /\ contains(m, "strategy"))
    \/ (contains(m, "save") /\ contains(m, "database"))
    \/ contains(m, "please save this")

\* process_message, lines 102-107 (no "please save this" here)
is_strategy_request_for_research(m) ==
    \/ (contains(m, "save") /\ contains(m, "strategy"))
    \/ (contains(m, "add") /\ contains(m, "strategy"))
    \/ (contains(m, "create") /\ contains(m, "strategy"))
    \/ (contains(m, "store") /\ contains(m, "strategy"))
    \/ (contains(m, "save") /\ contains(m, "database"))

\* lines 136-138
is_planning_request(m) ==
    /\ contains(m, "plan")
    /\ (contains(m, "investment") \/ contains(m, "strategy")
        \/ contains(m, "portfolio"))

\* extract_project_name, lines 209-220: the first project, in the HashSet's
\* unspecified iteration order, that the message contains: any of these.
project_name_candidates(m) == { p \in crypto_projects : contains(m, p) }

\* extract_keywords, lines 223-235
extract_keywords(m) == { k \in investment_keywords : contains(m, k) }

\* str::to_lowercase on the strategy names of the corpus
to_lowercase(s) ==
    CASE s = "DCA Plan" -> "dca plan"
      [] s = "X" -> "x"
      [] s = "Category: yield" -> "category: yield"
      [] OTHER -> s

\* str::replace(" ", "_") on the strategy names of the corpus
replace_spaces(s) ==
    CASE s = "dca plan" -> "dca_plan"
      [] s = "category: yield" -> "category:_yield"
      [] OTHER -> s

\* lines 374: the required fields
missing_required_field(m) ==
    \/ extract_field(m, "name:") = None
    \/ extract_field(m, "category:") = None
    \/ extract_field(m, "description:") = None
    \/ extract_field(m, "risk level:") = None

unwrap_or(v, default) == IF v = None THEN default ELSE v

\* lines 379-411: the arguments handed to db::create_strategy.  t is
\* chrono::Utc::now().timestamp().
strategy_record(username, m, t) ==
    [owner |-> username,
     strategy_id |-> <<replace_spaces(to_lowercase(extract_field(m, "name:"))),
                       to_lowercase(username), t>>,
     name |-> extract_field(m, "name:"),
     category |-> extract_field(m, "category:"),
     description |-> extract_field(m, "description:"),
     risk_level |-> extract_field(m, "risk level:"),
     author |-> unwrap_or(extract_field(m, "author:"), "User"),
     version |-> unwrap_or(extract_field(m, "version:"), "1.0")]

\* ---- response texts.  kind names the format string, the other fields are
\* its arguments.
Text(kind, subject, date, p1, p2) ==
    [kind |-> kind, subject |-> subject, date |-> date, p1 |-> p1, p2 |-> p2]
NoText == Text("none", "", <<>>, 0, 0)
UserText(m) == Text("user", m, <<>>, 0, 0)

\* ExaApiClient::summarize_project, exa_api/mod.rs lines 239-261
summarize_project(results) ==
    CASE results = "empty" -> "No information found."
      [] results = "insights" -> "Project Insights:"
      [] results = "plain" -> "Summary from"

\* outcomes of ExaApiClient::search (exa_api/mod.rs lines 163-196)
SearchOutcomes ==
    { [ok |-> TRUE, results |-> r] : r \in {"empty", "insights", "plain"} }
    \cup { [ok |-> FALSE, results |-> "empty"] }

\* lines 533-539 / 612-618
changed_price(current_price, price) ==
    IF current_price > 0 /\ price > 0 THEN current_price ELSE 0

\* lines 563-568
historical_text(crypto, date_str, price, current_price) ==
    Text("historical_price", get_display_name(crypto), date_str, price,
         IF current_price > 0 THEN current_price ELSE 0)

\* lines 620-627
historical_general_text(crypto, price, current_price) ==
    Text("historical_general", get_display_name(crypto), thirty_days_ago,
         price, changed_price(current_price, price))

\* lines 676-821
price_text(m, crypto, price) ==
    IF is_entry_points_query(m)
    THEN Text("entry_points", get_display_name(crypto), <<>>, price, 0)
    ELSE Text("current_price", get_display_name(crypto), <<>>, price, 0)

\* lines 825-834: the messages of the errors that are not retried by search
price_error_text(e, crypto) ==
    CASE e.err = "RateLimitExceeded" -> Text("rate_limited", "", <<>>, 0, 0)
      [] e.err = "PriceNotFound" ->
             Text("price_not_found", crypto, <<>>, 0, 0)
      [] e.err = "InvalidResponse" ->
             Text("coingecko_error", e.detail[2], <<>>, 0, 0)

\* lines 835-850: every other error goes to the search fallback
falls_back_to_search(e) ==
    e.err \notin {"RateLimitExceeded", "PriceNotFound", "InvalidResponse"}

\* line 842 / line 578
research_current_text(summary) == Text("research_current", summary, <<>>, 0, 0)
research_historical_text(summary) ==
    Text("research_historical", summary, <<>>, 0, 0)
\* line 847
no_realtime_price_text(crypto) == Text("no_realtime_price", crypto, <<>>, 0, 0)
\* line 375
schema_help_text == Text("schema_help", "", <<>>, 0, 0)
\* line 412
strategy_added_text(name) == Text("strategy_added", name, <<>>, 0, 0)

\* ---- the value process_message returns
Pending == [status |-> "pending", text |-> NoText, err |-> ""]
OkRet(text) == [status |-> "ok", text |-> text, err |-> ""]
ErrRet(e) == [status |-> "err", text |-> NoText, err |-> e]

\* ---- the stores and their outcomes
\* db::get_messages, queries.rs lines 42-48: the newest `limit` rows of the
\* one messages table, newest first (the table has no user column).
get_messages(log, limit) ==
    LET n == IF Len(log) < limit THEN Len(log) ELSE limit
    IN  [i \in 1..n |-> log[Len(log) + 1 - i]]

BoolOutcomes == {TRUE, FALSE}

\* outcomes of get_knowledge_by_tag / get_knowledge_by_keywords
KnowledgeOutcomes ==
    {[ok |-> TRUE, text |-> ""], [ok |-> TRUE, text |-> "notes"],
     [ok |-> FALSE, text |-> ""]}

\* outcomes of get_ai_response (service.rs)
AiOutcomes == {[ok |-> TRUE, text |-> "advice"], [ok |-> FALSE, text |-> ""]}

\* the locals of one process_message call, plus its observation record:
\* trace lists the turn's events in order, searches counts its search calls,
\* price_failure tells how the price fetch that decided the answer failed.
IdleTurn ==
    [pc |-> "idle", id |-> 0, user_message |-> "", crypto |-> "",
     price |-> 0, price_failure |-> "none", searches |-> 0,
     search_failed |-> FALSE,
     prompt |-> <<>>, response |-> NoText, ret |-> Pending, trace |-> <<>>]

InitChatVars ==
    /\ messages = <<>>
    /\ strategies = <<>>
    /\ turns = 0
    /\ sessions = <<>>
    /\ turn = [a \in Agents |-> IdleTurn]


\* the row one save_message call inserts; turn_id records which
\* process_message call made it
message_row(role, content, turn_id) ==
    [role |-> role, content |-> content, turn_id |-> turn_id]

\* a failed INSERT leaves the table as it was
failed_insert_kept(row) == <<row>>
failed_insert(row) == <<>>

assistant_rows_none(row) == <<>>
assistant_rows(row) == <<row>>

\* lines 66, 73, 83, 203: map_err on a failed save_message
save_error_invalid_input(row) == "InvalidInput"
save_error(row) == "Database"

\* where process_message starts: line 64
entry_pc_unsaved(a) == "price_query"
entry_pc(a) == "save_user"

\* `?` on an Err, or `return Err(..)`: the turn ends with the error
abort(t, e) ==
    [t EXCEPT !.pc = "returned", !.ret = ErrRet(e),
              !.trace = Append(@, "return_err")]

\* a computed response goes to the save at lines 71 / 81 / 201
computed(t, text) ==
    [t EXCEPT !.pc = "save_assistant", !.response = text,
              !.trace = Append(@, "computed")]

event(t, e) == [t EXCEPT !.trace = Append(@, e)]

\* line 62: a call of process_message.  The program is a command-line loop
\* that awaits each process_message before it reads the next line (main.rs
\* lines 59-124); the agents are sessions of different users that follow one
\* another on the same database.
process_message(a, m) ==
    /\ \A b \in Agents : turn[b].pc = "idle"
    /\ turns < MaxTurns
    /\ turns' = turns + 1
    /\ sessions' = Append(sessions, a)
    /\ turn' = [turn EXCEPT ![a] =
                   [IdleTurn EXCEPT !.pc = entry_pc(a), !.id = turns + 1,
                                    !.user_message = m]]
    /\ UNCHANGED <<messages, strategies, fvars, dvars, pvars>>

\* lines 64-66
save_user_message(a, ok) ==
    /\ turn[a].pc = "save_user"
    /\ LET row == message_row("user", UserText(turn[a].user_message),
                              turn[a].id)
       IN  IF ok
           THEN /\ messages' = Append(messages, row)
                /\ turn' = [turn EXCEPT ![a] =
                               [event(@, "save_user") EXCEPT
                                   !.pc = "price_query"]]
           ELSE /\ messages' = messages \o failed_insert(row)
                /\ turn' = [turn EXCEPT ![a] = abort(@, save_error(row))]
    /\ UNCHANGED <<strategies, turns, sessions, fvars,
                   dvars, pvars>>

\* The handlers below give the set of results a handler can come to, one
\* for each way its outbound calls can answer.

\* the search fallback of lines 572-585 (dated historical query) and
\* 836-849 (current price), s the outcome of exa_client.search: one call,
\* then the research text, or on failure the PriceApi error (dated) or the
\* apology (current)
search_result(t, s, dated) ==
    LET t1 == [event(t, "search_call") EXCEPT
                  !.searches = @ + 1, !.search_failed = ~s.ok]
        summary == summarize_project(s.results)
    IN  IF dated
        THEN IF s.ok
             THEN computed(t1, research_historical_text(summary))
             ELSE abort(t1, "PriceApi")
        ELSE IF s.ok
             THEN computed(t1, research_current_text(summary))
             ELSE computed(t1, no_realtime_price_text(t1.crypto))

search_fallback(t, dated) ==
    { search_result(t, s, dated) : s \in SearchOutcomes }

\* "unrecognized": the price source answered with a well-formed body that
\* has no entry for the coin (price_fetcher.rs line 102); "other": any other
\* PriceError
failure_kind(res, crypto) ==
    IF res.err = "PriceNotFound"
       /\ res.detail = <<map_crypto_name_to_id(crypto)>>
    THEN "unrecognized"
    ELSE "other"

\* lines 675-855: the current-price fetch returned res
current_price_result(t, res) ==
    LET t1 == event(t, "price_call")
    IN  IF res.ok
        THEN {computed(t1, price_text(t.user_message, t.crypto, res.value))}
        ELSE IF falls_back_to_search(res)
        THEN search_fallback(
                 [t1 EXCEPT !.price_failure = failure_kind(res, t.crypto)],
                 FALSE)
        ELSE {computed(
                 [t1 EXCEPT !.price_failure = failure_kind(res, t.crypto)],
                 price_error_text(res, t.crypto))}

\* lines 638-858: the cascade, then the current-price fetch and the handling
\* of its result, or Ok(None)
current_price_query(t) ==
    LET crypto == extract_crypto(t.user_message)
        coin_id == map_crypto_name_to_id(crypto)
    IN  IF crypto = ""
        THEN {[t EXCEPT !.pc = "strategy"]}
        ELSE UNION { current_price_result(
                         [t EXCEPT !.crypto = crypto],
                         fetch_result("fetch_coin_price", <<coin_id>>, r)) :
                       r \in Responses("fetch_coin_price", <<coin_id>>) }

\* lines 526-569 and 605-628: the historical price is there; the current
\* price is fetched for comparison and res is what the fetch returned
historical_result(t, price, res, dated) ==
    LET current_price == IF res.ok THEN res.value ELSE 0
        t1 == [event(t, "price_call") EXCEPT !.price = price]
    IN  computed(t1,
            IF dated
            THEN historical_text(t.crypto,
                                 historical_regex(t.user_message).date,
                                 price, current_price)
            ELSE historical_general_text(t.crypto, price, current_price))

historical_answer(t, price, dated) ==
    LET coin_id == map_crypto_name_to_id(t.crypto)
    IN  { historical_result(t, price,
              fetch_result("fetch_coin_price", <<coin_id>>, r), dated) :
            r \in Responses("fetch_coin_price", <<coin_id>>) }

\* lines 513-589: the dated historical query
historical_price_query(t) ==
    LET caps == historical_regex(t.user_message)
        formatted_date == format_date_for_api(caps.date)
        args == <<map_crypto_name_to_id(caps.g[1]), formatted_date.value>>
        t1 == [t EXCEPT !.crypto = caps.g[1]]
        t2 == event(t1, "price_call")
        after(res) ==
            IF res.ok
            THEN historical_answer(t2, res.value, TRUE)
            ELSE search_fallback(
                     [t2 EXCEPT !.price_failure =
                                    failure_kind(res, caps.g[1])],
                     TRUE)
    IN  IF ~formatted_date.ok
        THEN {abort(t1, "InvalidInput")}
        ELSE UNION { after(fetch_result("fetch_coin_historical_price",
                                        args, r)) :
                       r \in Responses("fetch_coin_historical_price", args) }

\* lines 592-636: the undated historical query; on a fetch error the code
\* logs it and goes on to the cascade
general_historical_query(t) ==
    LET caps == historical_general_regex(t.user_message)
        args == <<map_crypto_name_to_id(caps.g[1]), thirty_days_ago>>
        t1 == [t EXCEPT !.crypto = caps.g[1]]
        t2 == event(t1, "price_call")
        after(res) ==
            IF res.ok
            THEN historical_answer(t2, res.value, FALSE)
            ELSE current_price_query(t2)
    IN  UNION { after(fetch_result("fetch_coin_historical_price", args, r)) :
                  r \in Responses("fetch_coin_historical_price", args) }

\* handle_price_query, lines 493-859
PriceQueryResults(t) ==
    LET t1 == event(t, "classify")
    IN  IF historical_regex(t.user_message).matched
        THEN historical_price_query(t1)
        ELSE IF historical_general_regex(t.user_message).matched
        THEN general_historical_query(t1)
        ELSE current_price_query(t1)

handle_price_query(a) ==
    /\ turn[a].pc = "price_query"
    /\ \E t \in PriceQueryResults(turn[a]) : turn' = [turn EXCEPT ![a] = t]
    /\ UNCHANGED <<messages, strategies, turns, sessions, fvars,
                   dvars, pvars>>

\* a row of the strategies table: the record create_strategy inserts;
\* turn_id records which process_message call made it
strategy_row(record, turn_id) == [record |-> record, turn_id |-> turn_id]

\* chrono::Utc::now().timestamp() at line 382: the clock does not go back;
\* since the last creation it has stayed within the same second or moved on
utc_now_timestamps(table) ==
    LET last == IF table = <<>> THEN now \div 1000
                ELSE table[Len(table)].record.strategy_id[3]
    IN  {last, last + 1}

\* db::create_strategy, queries.rs lines 116-147: one INSERT
created_rows_twice(row) == <<row, row>>
created_rows(row) == <<row>>

\* handle_strategy_creation, lines 340-415; ok: db::create_strategy
\* succeeds; ts: the timestamp read at line 382
handle_strategy_creation(a, ok, ts) ==
    /\ turn[a].pc = "strategy"
    /\ LET m == turn[a].user_message
           t == event(turn[a], "classify_strategy")
           t1 == event(t, "strategy_write")
           create == is_strategy_request(m) /\ ~missing_required_field(m)
       IN  /\ turn' = [turn EXCEPT ![a] =
                  IF ~is_strategy_request(m)
                  THEN [t EXCEPT !.pc = "history"]
                  ELSE IF missing_required_field(m)
                  THEN computed(t, schema_help_text)
                  ELSE IF ok
                  THEN computed(t1, strategy_added_text(
                                        extract_field(m, "name:")))
                  ELSE abort(t1, "Database")]
           /\ strategies' =
                  IF create /\ ok
                  THEN strategies
                       \o created_rows(strategy_row(strategy_record(a, m, ts),
                                                    turn[a].id))
                  ELSE strategies
    /\ UNCHANGED <<messages, turns, sessions, fvars,
                   dvars, pvars>>

\* lines 110-121: the research context, kt the outcome of
\* get_knowledge_by_tag for the extracted project
research_context(m, project_name, kt) ==
    IF is_strategy_request_for_research(m) \/ project_name = None
       \/ ~kt.ok \/ kt.text = ""
    THEN <<>>
    ELSE << <<"Research about", project_name, kt.text>> >>

\* lines 127-133
knowledge_context(kk) ==
    IF kk.text = "" THEN <<>> ELSE << <<"Relevant knowledge", "", kk.text>> >>

\* lines 141-148
conversation_context(recent_messages) ==
    IF recent_messages = <<>> THEN <<>>
    ELSE <<"RECENT CONVERSATION HISTORY:">>
         \o [i \in 1..Len(recent_messages) |->
                <<recent_messages[i].role, recent_messages[i].content>>]

\* one piece of the prompt: the variable or literal of the format string
\* it comes from, and its text
section(name, text) == [name |-> name, text |-> text]

\* lines 186-187 / 175-176: the two middle arguments of the format string
context_before_history(conversation, context) == <<context, conversation>>
history_before_context(conversation, context) == <<conversation, context>>

\* lines 160-191: the pieces of the prompt in the order of the format
\* string; in planning mode the response structure follows the planning
\* instructions
build_prompt(m, recent_messages, context) ==
    (IF is_planning_request(m)
     THEN <<section("role",
                    "You are Nova, a crypto investment advisor in PLANNING MODE."),
            section("planning_instructions", "IMPORTANT: Before answering"),
            section("planning_structure",
                    "When in planning mode, structure your response")>>
     ELSE <<section("role", "You are Nova, a crypto investment advisor."),
            section("planning_instructions", "IMPORTANT: Before answering")>>)
    \o history_before_context(
           section("conversation_context",
                   conversation_context(recent_messages)),
           section("context", context))
    \o <<section("user_query", m)>>

\* extract_project_name, lines 209-220
ProjectChoices(m) ==
    IF project_name_candidates(m) = {} THEN {None}
    ELSE project_name_candidates(m)

\* process_message lines 88-191: the history read (ok: it succeeds), the
\* knowledge reads (kt by tag, kk by keywords) and the prompt
prompt_result(t, log, ok, project_name, kt, kk) ==
    LET m == t.user_message
        recent_messages == IF ok THEN get_messages(log, 10) ELSE <<>>
        has_keywords == extract_keywords(m) # {}
        context == research_context(m, project_name, kt)
                   \o (IF has_keywords THEN knowledge_context(kk) ELSE <<>>)
        t1 == event(event(t, "history_read"), "knowledge_read")
    IN  IF has_keywords /\ ~kk.ok
        THEN abort(t1, "Database")
        ELSE [t1 EXCEPT !.pc = "ai",
                        !.prompt = build_prompt(m, recent_messages, context)]

PromptResults(t, log) ==
    { prompt_result(t, log, ok, p, kt, kk) :
        ok \in BoolOutcomes, p \in ProjectChoices(t.user_message),
        kt \in KnowledgeOutcomes, kk \in KnowledgeOutcomes }

assemble_prompt(a) ==
    /\ turn[a].pc = "history"
    /\ \E t \in PromptResults(turn[a], messages) :
          turn' = [turn EXCEPT ![a] = t]
    /\ UNCHANGED <<messages, strategies, turns, sessions, fvars,
                   dvars, pvars>>

\* lines 194-198
get_ai_response(a, o) ==
    /\ turn[a].pc = "ai"
    /\ LET t == event(turn[a], "llm_call")
       IN  turn' = [turn EXCEPT ![a] =
               IF o.ok
               THEN computed(t, Text("ai", o.text, <<>>, 0, 0))
               ELSE abort(t, "AnthropicApi")]
    /\ UNCHANGED <<messages, strategies, turns, sessions, fvars,
                   dvars, pvars>>

\* lines 71-75, 81-85, 201-205
save_assistant_message(a, ok) ==
    /\ turn[a].pc = "save_assistant"
    /\ LET row == message_row("assistant", turn[a].response, turn[a].id)
       IN  IF ok
           THEN /\ messages' = messages \o assistant_rows(row)
                /\ turn' = [turn EXCEPT ![a] =
                       [event(event(@, "save_assistant"), "return_ok")
                        EXCEPT !.pc = "returned",
                               !.ret = OkRet(turn[a].response)]]
           ELSE /\ messages' = messages \o failed_insert(row)
                /\ turn' = [turn EXCEPT ![a] = abort(@, save_error(row))]
    /\ UNCHANGED <<strategies, turns, sessions, fvars,
                   dvars, pvars>>

\* the caller takes the result; the agent is ready for its next message
turn_end(a) ==
    /\ turn[a].pc = "returned"
    /\ turn' = [turn EXCEPT ![a] = IdleTurn]
    /\ UNCHANGED <<messages, strategies, turns, sessions, fvars,
                   dvars, pvars>>

\* the messages the agents send
ChatMessages ==
    { "What was the price of foocoin on 1/2/24",
      "What was the price of bitcoin on 1-2-123",
      "What is the historical price of btc in january",
      "What is the price of foocoin?",
      "Save strategy\nName: DCA Plan\nCategory: yield\nDescription: buy weekly\nRisk Level: low",
      "Save strategy\nName: X",
      "how do i diversify with ethereum" }

\* the price levels have not been computed
NoLevels ==
    [decimals |-> 0, price_str |-> -1, strong_support_str |-> -1,
     support_str |-> -1, resistance_str |-> -1, strong_resistance_str |-> -1]

\* extract_array_field has not been called
NotExtracted == [called |-> FALSE, some |-> FALSE, items |-> <<>>,
                 stored |-> <<>>]

InitQuoteVars ==
    /\ quote_crypto = ""
    /\ quote_price = 0
    /\ quote_levels = NoLevels

InitListVars ==
    /\ list_message = ""
    /\ list_field = ""
    /\ list_result = NotExtracted

InitPureVars == InitQuoteVars /\ InitListVars

\* ------------------------------------------------- the Date Normalizer
\* Strings are sequences of characters here.

\* format_date_for_api has not been called
NotCalled == [ok |-> FALSE, value |-> <<"none">>]

InitDateVars ==
    /\ date_input = <<>>
    /\ date_output = NotCalled
    /\ date_output2 = NotCalled

\* the digit groups the date strings are made of
DateParts ==
    { <<"1">>,
      <<"0", "1">>,
      <<"2">>,
      <<"0", "2">>,
      <<"1", "2">>,
      <<"1", "3">>,
      <<"3", "1">>,
      <<"2", "4">>,
      <<"1", "2", "3">>,
      <<"2", "0", "2", "4">>,
      <<"1", "9", "9", "9">> }

\* dates spelled with a month name
SpelledDates ==
    { <<"1", " ", "D", "e", "c", "e", "m", "b", "e", "r", " ", "2", "0", "2", "4">>,
      <<"0", "1", " ", "D", "e", "c", "e", "m", "b", "e", "r", " ", "2", "0", "2", "4">>,
      <<"3", "1", " ", "F", "e", "b", "r", "u", "a", "r", "y", " ", "2", "0", "2", "4">> }

\* the strings format_date_for_api is called with: three digit groups with
\* a separator, and the spelled-out dates
DateStrings ==
    { p1 \o <<sep>> \o p2 \o <<sep>> \o p3 :
        p1 \in DateParts, p2 \in DateParts, p3 \in DateParts,
        sep \in DateSeparators }
    \cup SpelledDates

\* the date group of historical_regex, line 507:
\* [0-9]{1,2}[-/][0-9]{1,2}[-/][0-9]{2,4}
Digits == {"0", "1", "2", "3", "4", "5", "6", "7", "8", "9"}

is_digits(str, lo, hi) ==
    /\ Len(str) \in lo..hi
    /\ \A i \in DOMAIN str : str[i] \in Digits

historical_date_group(s) ==
    LET f == split_date(s)
    IN  /\ Len(f) = 3
        /\ \A i \in DOMAIN s : s[i] \in Digits \cup {"-", "/"}
        /\ is_digits(f[1], 1, 2)
        /\ is_digits(f[2], 1, 2)
        /\ is_digits(f[3], 2, 4)

\* line 519: format_date_for_api(date_input)
normalize ==
    /\ date_output = NotCalled
    /\ date_output' = format_date_for_api(date_input)
    /\ UNCHANGED <<date_input, date_output2, fvars, cvars, pvars>>

\* format_date_for_api called with the string an earlier call returned
renormalize ==
    /\ date_output.ok
    /\ date_output2 = NotCalled
    /\ date_output2' = format_date_for_api(date_output.value)
    /\ UNCHANGED <<date_input, date_output, fvars, cvars, pvars>>

InitDates ==
    /\ date_input \in DateStrings
    /\ date_output = NotCalled
    /\ date_output2 = NotCalled
    /\ InitFetchVars
    /\ InitChatVars
    /\ InitPureVars

NextDates == normalize \/ renormalize

SpecDates == InitDates /\ [][NextDates]_vars

\* --------------------------------- the price levels of a current-price answer
\* Prices are whole numbers of 1/10000 dollar; factors are in percent, so
\* price * factor is a whole number of 1/1000000 dollar.

MaxQuotePrice == 20

\* fetched prices: the smallest ones, one on a rounding tie, a few dollars,
\* more than a thousand dollars
QuotePrices == 1..MaxQuotePrice \cup {1250, 123456, 12345678}

\* the names the cascade can extract
QuoteCryptos == {"bitcoin", "btc", "ethereum", "eth", "solana", "foocoin"}

\* line 677
is_major_never(crypto) == FALSE
is_major(crypto) == crypto \in {"bitcoin", "btc", "ethereum", "eth"}

\* lines 680-684, in percent
support_factor(crypto) == IF is_major(crypto) THEN 92 ELSE 85
resistance_factor(crypto) == IF is_major(crypto) THEN 108 ELSE 115

Pow10(n) == IF n = 2 THEN 100 ELSE IF n = 4 THEN 10000 ELSE 1

\* format!("${:.2}", v) / format!("${:.4}", v), lines 699-703: v, in
\* 1/1000000 dollar, written with `decimals` decimals, as the number of
\* units of the last decimal.  The f64 product is within rounding error of
\* the exact one, so on an exact tie either neighbour can be written.
format_price(v, decimals) ==
    LET unit == 1000000 \div Pow10(decimals)
        lo == v \div unit
        rest == v % unit
    IN  IF 2 * rest < unit THEN {lo}
        ELSE IF 2 * rest > unit THEN {lo + 1}
        ELSE {lo, lo + 1}

\* lines 677-703: the strings of the answer for the fetched price
price_levels(crypto, price) ==
    LET decimals == IF is_major(crypto) THEN 2 ELSE 4
        strong_support == price * (support_factor(crypto) - 7)
        support == price * support_factor(crypto)
        resistance == price * resistance_factor(crypto)
        strong_resistance == price * (resistance_factor(crypto) + 7)
    IN  { [decimals |-> decimals, price_str |-> p,
           strong_support_str |-> ss, support_str |-> su,
           resistance_str |-> re, strong_resistance_str |-> sr] :
            p \in format_price(price * 100, decimals),
            ss \in format_price(strong_support, decimals),
            su \in format_price(support, decimals),
            re \in format_price(resistance, decimals),
            sr \in format_price(strong_resistance, decimals) }

\* lines 674-704: the price has been fetched, the strings are computed
write_levels ==
    /\ quote_levels = NoLevels
    /\ quote_levels' \in price_levels(quote_crypto, quote_price)
    /\ UNCHANGED <<quote_crypto, quote_price, list_message, list_field,
                   list_result, fvars, cvars, dvars>>

InitLevels ==
    /\ quote_crypto \in QuoteCryptos
    /\ quote_price \in QuotePrices
    /\ quote_levels = NoLevels
    /\ InitListVars
    /\ InitFetchVars
    /\ InitChatVars
    /\ InitDateVars

NextLevels == write_levels

SpecLevels == InitLevels /\ [][NextLevels]_vars

\* ------------------------------------------- the list-valued fields
\* Option<Vec<String>>
NoItems == [some |-> FALSE, items |-> <<>>]
SomeItems(items) == [some |-> TRUE, items |-> items]

\* extract_array_field, lines 430-461: the comma split of the field value
\* (split_trim: split(',') and trim), else the numbered items of the lines
\* after the label (items_regex: the items the two regexes of lines 439 and
\* 443 give), else the value alone
extract_array_field(m, field_name) ==
    LET field_value == extract_field(m, field_name)
    IN  IF field_value = None THEN NoItems
        ELSE IF field_value \in comma_values
        THEN SomeItems(split_trim(field_value))
        ELSE IF items_regex(m, field_name) # <<>>
        THEN SomeItems(items_regex(m, field_name))
        ELSE SomeItems(<<field_value>>)

\* lines 403-405: the lists handed to db::create_strategy
stored_list(m, field_name) ==
    LET v == extract_array_field(m, field_name)
    IN  IF v.some THEN v.items
        ELSE IF field_name = "tags:" THEN <<"investment">>
        ELSE <<>>

ListFields == {"tags:", "steps:", "requirements:"}

\* lines 365-367 and 403-405
extract_lists ==
    /\ list_result = NotExtracted
    /\ LET v == extract_array_field(list_message, list_field)
       IN  list_result' = [called |-> TRUE, some |-> v.some,
                           items |-> v.items,
                           stored |-> stored_list(list_message, list_field)]
    /\ UNCHANGED <<list_message, list_field, quote_crypto, quote_price,
                   quote_levels, fvars, cvars, dvars>>

InitLists ==
    /\ list_message \in ListMessages
    /\ list_field \in ListFields
    /\ list_result = NotExtracted
    /\ InitQuoteVars
    /\ InitFetchVars
    /\ InitChatVars
    /\ InitDateVars

NextLists == extract_lists

SpecLists == InitLists /\ [][NextLists]_vars

\* ------------------------------------------------------- specifications
NextFetch ==
    \/ Tick
    \/ \E c \in Callers, fn \in FetchFns :
           \E args \in FetchArgs(fn) : fetch_call(c, fn, args)
    \/ \E c \in Callers : respect_rate_limit_lock(c)
    \/ \E c \in Callers : respect_rate_limit_check(c)
    \/ \E c \in Callers : respect_rate_limit_wake(c)
    \/ \E c \in Callers : send_request(c)
    \/ \E c \in Callers :
           \E r \in Responses(ffn[c], fargs[c]) : receive_response(c, r)
    \/ \E c \in Callers : update_last_request_lock(c)
    \/ \E c \in Callers : update_last_request_store(c)
    \/ \E c \in Callers : fetch_return(c)

InitFetch == InitFetchVars /\ InitChatVars /\ InitDateVars /\ InitPureVars

SpecFetch == InitFetch /\ [][NextFetch]_vars

\* ---- the price fetcher under fair scheduling
\* A first request was answered at time 0: LAST_REQUEST holds its time, all
\* callers are idle again.
InitFetchAnswered ==
    /\ now = 0
    /\ LAST_REQUEST = 0
    /\ lastStart = 0
    /\ lockHolder = None
    /\ fpc = [c \in Callers |-> "idle"]
    /\ ffn = [c \in Callers |-> "fetch_coin_price"]
    /\ fargs = [c \in Callers |-> <<>>]
    /\ acqAt = [c \in Callers |-> 0]
    /\ acquired = [c \in Callers |-> FALSE]
    /\ wakeAt = [c \in Callers |-> 0]
    /\ resp = [c \in Callers |-> NoResponse]
    /\ fresult = [c \in Callers |-> NoResult]
    /\ gapOk = TRUE
    /\ calls = 0

InitFetchFair ==
    InitFetchAnswered /\ InitChatVars /\ InitDateVars /\ InitPureVars

\* the steps of caller c that go on by themselves once they can: the two
\* lock() calls return when the mutex is free, the code between awaits runs,
\* the sleep ends when its time has come, the request is answered or times
\* out (line 75: 10 s)
respect_rate_limit_steps(c) ==
    \/ respect_rate_limit_check(c)
    \/ respect_rate_limit_wake(c)

request_steps(c) ==
    \/ send_request(c)
    \/ \E r \in Responses(ffn[c], fargs[c]) : receive_response(c, r)
    \/ update_last_request_store(c)
    \/ fetch_return(c)

NextFetchFair ==
    \/ Tick
    \/ \E c \in Callers, fn \in FetchFns :
           \E args \in FetchArgs(fn) : fetch_call(c, fn, args)
    \/ \E c \in Callers : respect_rate_limit_lock(c)
    \/ \E c \in Callers : respect_rate_limit_block(c)
    \/ \E c \in Callers : respect_rate_limit_steps(c)
    \/ \E c \in Callers : request_steps(c)
    \/ \E c \in Callers : update_last_request_lock(c)

\* time passes; every caller that can take a step takes one; a caller that
\* waits for the mutex gets it if it is free again and again
FairScheduling ==
    /\ WF_vars(Tick)
    /\ \A c \in Callers :
           /\ SF_vars(respect_rate_limit_lock(c))
           /\ SF_vars(update_last_request_lock(c))
           /\ WF_vars(respect_rate_limit_steps(c))
           /\ WF_vars(request_steps(c))

SpecFetchFair == InitFetchFair /\ [][NextFetchFair]_vars /\ FairScheduling

InitChat == InitChatVars /\ InitFetchVars /\ InitDateVars /\ InitPureVars

NextChat ==
    \/ \E a \in Agents, m \in ChatMessages : process_message(a, m)
    \/ \E a \in Agents, ok \in BoolOutcomes : save_user_message(a, ok)
    \/ \E a \in Agents : handle_price_query(a)
    \/ \E a \in Agents, ok \in BoolOutcomes :
           \E ts \in utc_now_timestamps(strategies) :
               handle_strategy_creation(a, ok, ts)
    \/ \E a \in Agents : assemble_prompt(a)
    \/ \E a \in Agents, o \in AiOutcomes : get_ai_response(a, o)
    \/ \E a \in Agents, ok \in BoolOutcomes : save_assistant_message(a, ok)
    \/ \E a \in Agents : turn_end(a)

SpecChat == InitChat /\ [][NextChat]_vars

\* messages on which the matchers of handle_price_query disagree, or whose
\* fields are blank: the same process_message steps on them
IntentMessages ==
    { "what is bitcoin and entry points for solana",
      "bitcoin price",
      "What is the historical price of btc in january",
      "Save strategy\nName:\nCategory: yield\nDescription: buy weekly\nRisk Level: low",
      "save this to the database" }

NextIntent ==
    \/ \E a \in Agents, m \in IntentMessages : process_message(a, m)
    \/ \E a \in Agents, ok \in BoolOutcomes : save_user_message(a, ok)
    \/ \E a \in Agents : handle_price_query(a)
    \/ \E a \in Agents, ok \in BoolOutcomes :
           \E ts \in utc_now_timestamps(strategies) :
               handle_strategy_creation(a, ok, ts)
    \/ \E a \in Agents : assemble_prompt(a)
    \/ \E a \in Agents, o \in AiOutcomes : get_ai_response(a, o)
    \/ \E a \in Agents, ok \in BoolOutcomes : save_assistant_message(a, ok)
    \/ \E a \in Agents : turn_end(a)

SpecIntent == InitChat /\ [][NextIntent]_vars

\* current-price and entry-points questions for coins of both classes, and
\* a message without a coin
PriceMessages ==
    { "how much is eth",
      "how much is bitcoin now, when to buy",
      "prices for solana entering",
      "thanks a lot" }

NextPrice ==
    \/ \E a \in Agents, m \in PriceMessages : process_message(a, m)
    \/ \E a \in Agents, ok \in BoolOutcomes : save_user_message(a, ok)
    \/ \E a \in Agents : handle_price_query(a)
    \/ \E a \in Agents, ok \in BoolOutcomes :
           \E ts \in utc_now_timestamps(strategies) :
               handle_strategy_creation(a, ok, ts)
    \/ \E a \in Agents : assemble_prompt(a)
    \/ \E a \in Agents, o \in AiOutcomes : get_ai_response(a, o)
    \/ \E a \in Agents, ok \in BoolOutcomes : save_assistant_message(a, ok)
    \/ \E a \in Agents : turn_end(a)

SpecPrice == InitChat /\ [][NextPrice]_vars

\* messages that reach the prompt: a planning request, a question that
\* names a project, and a message with neither
PromptMessages ==
    { "plan my defi portfolio",
      "how do i diversify with ethereum",
      "thanks a lot" }

NextPrompt ==
    \/ \E a \in Agents, m \in PromptMessages : process_message(a, m)
    \/ \E a \in Agents, ok \in BoolOutcomes : save_user_message(a, ok)
    \/ \E a \in Agents : handle_price_query(a)
    \/ \E a \in Agents, ok \in BoolOutcomes :
           \E ts \in utc_now_timestamps(strategies) :
               handle_strategy_creation(a, ok, ts)
    \/ \E a \in Agents : assemble_prompt(a)
    \/ \E a \in Agents, o \in AiOutcomes : get_ai_response(a, o)
    \/ \E a \in Agents, ok \in BoolOutcomes : save_assistant_message(a, ok)
    \/ \E a \in Agents : turn_end(a)

SpecPrompt == InitChat /\ [][NextPrompt]_vars


\* ================================================== claims on SpecFetch

\* C1: any two outbound price-source requests, from any number of concurrent
\* callers, are started at least MIN_REQUEST_INTERVAL_MS apart (start to
\* start).  Requests start in clock order, so it is enough that every request
\* starts at least the interval after the one started just before it.
C1_MinimumSpacing == gapOk

\* C7: while a request is in flight, whatever its outcome will be, the shared
\* LAST_REQUEST already holds a time not earlier than the moment this call
\* entered the limiter.
C7_RecordedBeforeRequest ==
    \A c \in Callers :
        fpc[c] = "inflight" =>
            (LAST_REQUEST # NoInstant /\ LAST_REQUEST >= acqAt[c])

\* C8: no caller holds the LAST_REQUEST lock while its request is in flight;
\* a caller holds it only inside respect_rate_limit and for the timestamp
\* update after the response.
C8_NoLockAcrossRequest ==
    \A c \in Callers :
        /\ fpc[c] = "inflight" => lockHolder # c
        /\ lockHolder = c => fpc[c] \in {"rl_locked", "rl_sleep", "upd_locked"}

C8_Witness ==
    \E c \in Callers, d \in Callers :
        /\ c # d
        /\ fpc[c] = "inflight"
        /\ fpc[d] = "upd_locked"
        /\ lockHolder = d

\* C9: every outbound request of the three fetch functions is preceded, in
\* the same call, by a completed respect_rate_limit().
C9_LimiterBeforeRequest ==
    \A c \in Callers : fpc[c] \in {"send", "inflight"} => acquired[c]

C9_Witness ==
    \E c \in Callers :
        /\ fpc[c] = "inflight"
        /\ ffn[c] = "fetch_multiple_coin_prices"
        /\ acquired[c]

\* C10 (as amended): fetch_coin_price and fetch_coin_historical_price map
\* every outcome of the price source as follows: transport failure ->
\* NetworkError; 429 -> RateLimitExceeded; any other non-success status ->
\* InvalidResponse("Status code: <status>"); success without the coin ->
\* PriceNotFound(<coin>); success with the coin but without usd ->
\* PriceNotFound("USD price for <coin>"), for the historical fetch
\* PriceNotFound("Historical USD price for <coin>"); a quote only for a
\* success response that contains the usd price, and then that price.
HasUsd(fn, coin, r) ==
    /\ r.transport_ok
    /\ r.status = "200"
    /\ IF fn = "fetch_coin_historical_price"
       THEN r.body.shape = "history" /\ r.body.hist_usd # NoUsd
       ELSE /\ r.body.shape = "simple"
            /\ coin \in DOMAIN r.body.usd
            /\ r.body.usd[coin] # NoUsd

LacksCoin(fn, coin, r) ==
    /\ r.transport_ok /\ r.status = "200"
    /\ fn = "fetch_coin_price"
    /\ r.body.shape = "simple"
    /\ coin \notin DOMAIN r.body.usd

LacksUsd(fn, coin, r) ==
    /\ r.transport_ok /\ r.status = "200"
    /\ IF fn = "fetch_coin_historical_price"
       THEN r.body.shape = "history" /\ r.body.hist_usd = NoUsd
       ELSE /\ r.body.shape = "simple"
            /\ coin \in DOMAIN r.body.usd
            /\ r.body.usd[coin] = NoUsd

ErrorMappingExceptNotFound(c) ==
    LET r == resp[c]
        res == fresult[c]
        coin == fargs[c][1]
    IN  /\ ~r.transport_ok => (~res.ok /\ res.err = "NetworkError")
        /\ (r.transport_ok /\ r.status = "429") =>
               (~res.ok /\ res.err = "RateLimitExceeded")
        /\ (r.transport_ok /\ r.status \notin {"200", "429"}) =>
               (~res.ok /\ res.err = "InvalidResponse"
                /\ res.detail = <<"Status code: ", r.status>>)
        /\ res.ok <=> HasUsd(ffn[c], coin, r)
        /\ res.ok =>
               res.value = IF ffn[c] = "fetch_coin_historical_price"
                           THEN r.body.hist_usd ELSE r.body.usd[coin]

Returned(c) ==
    /\ fpc[c] = "done"
    /\ ffn[c] \in {"fetch_coin_price", "fetch_coin_historical_price"}

C10_ErrorMapping ==
    \A c \in Callers :
        Returned(c) =>
            LET r == resp[c]
                res == fresult[c]
                coin == fargs[c][1]
            IN  /\ ErrorMappingExceptNotFound(c)
                /\ LacksCoin(ffn[c], coin, r) =>
                       (~res.ok /\ res.err = "PriceNotFound"
                        /\ res.detail = <<coin>>)
                /\ LacksUsd(ffn[c], coin, r) =>
                       (~res.ok /\ res.err = "PriceNotFound"
                        /\ res.detail =
                             IF ffn[c] = "fetch_coin_historical_price"
                             THEN <<"Historical USD price for ", coin>>
                             ELSE <<"USD price for ", coin>>)

C10_Witness ==
    \E c \in Callers :
        /\ Returned(c)
        /\ ffn[c] = "fetch_coin_historical_price"
        /\ LacksUsd(ffn[c], fargs[c][1], resp[c])
        /\ fresult[c].err = "PriceNotFound"

\* C10 as stated: a success response lacking the coin or the usd currency
\* gives PriceNotFound(coin).
C10_Original ==
    \A c \in Callers :
        Returned(c) =>
            LET r == resp[c]
                res == fresult[c]
                coin == fargs[c][1]
            IN  /\ ErrorMappingExceptNotFound(c)
                /\ (LacksCoin(ffn[c], coin, r) \/ LacksUsd(ffn[c], coin, r))
                       => (~res.ok /\ res.err = "PriceNotFound"
                           /\ res.detail = <<coin>>)

\* ================================================= chat-orchestrator claims
\* The rows of the messages table that the turn in progress of agent a has
\* inserted.
TurnRows(a) ==
    SelectSeq(messages, LAMBDA row : row.turn_id = turn[a].id)

AssistantRows(a) ==
    SelectSeq(TurnRows(a), LAMBDA row : row.role = "assistant")

Occurs(tr, e) == \E i \in DOMAIN tr : tr[i] = e

\* the events of a turn that are classification, outbound calls, reads or
\* strategy writes
ProcessingEvents ==
    {"classify", "price_call", "search_call", "classify_strategy",
     "strategy_write", "history_read", "knowledge_read", "llm_call"}

\* C2: when the price source answers a price query with a well-formed
\* response that lacks the coin, the turn makes exactly one search call
\* before its response is returned.
C2_UnrecognizedCoinSearchedOnce ==
    \A a \in Agents :
        (/\ turn[a].pc = "returned"
         /\ turn[a].ret.status = "ok"
         /\ turn[a].price_failure = "unrecognized")
        => turn[a].searches = 1

\* C3: a price query whose price fetch failed and whose search fallback
\* failed too still returns a text, the apology naming the coin, and that
\* text is the persisted assistant message (a failure of the final save apart).
C3_DoubleFailureStillAnswers ==
    \A a \in Agents :
        (/\ turn[a].pc = "returned"
         /\ turn[a].price_failure # "none"
         /\ turn[a].search_failed
         /\ turn[a].ret.err # "Database")
        => /\ turn[a].ret.status = "ok"
           /\ turn[a].ret.text = no_realtime_price_text(turn[a].crypto)
           /\ AssistantRows(a) # <<>>
           /\ AssistantRows(a)[1].content = turn[a].ret.text

\* C4: in a turn, the user message is in the table before any
\* classification, outbound call, read or strategy write happens; the
\* response is saved only after it has been computed, nothing is processed
\* after the save, and the response is returned only right after its save.
C4_TurnOrdering ==
    \A a \in Agents :
        LET tr == turn[a].trace
        IN  /\ \A i \in DOMAIN tr :
                  tr[i] \in ProcessingEvents =>
                      /\ \E j \in 1..(i - 1) : tr[j] = "save_user"
                      /\ TurnRows(a) # <<>>
                      /\ TurnRows(a)[1].role = "user"
                      /\ ~\E j \in 1..(i - 1) : tr[j] = "save_assistant"
            /\ \A i \in DOMAIN tr :
                  tr[i] = "save_assistant" =>
                      \E j \in 1..(i - 1) : tr[j] = "computed"
            /\ \A i \in DOMAIN tr :
                  tr[i] = "return_ok" =>
                      /\ i > 1
                      /\ tr[i - 1] = "save_assistant"
                      /\ AssistantRows(a) # <<>>
            /\ AssistantRows(a) # <<>> =>
                  /\ Occurs(tr, "computed")
                  /\ TurnRows(a)[1].role = "user"

\* a turn answered by the search fallback has returned: it saved the user
\* message, classified, called the price source and the search, saved and
\* returned
C4_Witness ==
    \E a \in Agents :
        /\ turn[a].pc = "returned"
        /\ turn[a].ret.status = "ok"
        /\ turn[a].trace = <<"save_user", "classify", "price_call",
                             "search_call", "computed", "save_assistant",
                             "return_ok">>

\* C5: when process_message returns a text, the turn has inserted exactly
\* one assistant message and its content is that text.
C5_ResponsePersistedOnce ==
    \A a \in Agents :
        (turn[a].pc = "returned" /\ turn[a].ret.status = "ok")
        => /\ Len(AssistantRows(a)) = 1
           /\ AssistantRows(a)[1].content = turn[a].ret.text
           /\ turn[a].ret.text # NoText

\* the apology of the current-price branch was returned, after texts of the
\* strategy branch or of the language model were returned in an earlier turn
C5_Witness ==
    /\ \E a \in Agents :
          /\ turn[a].pc = "returned"
          /\ turn[a].ret = OkRet(no_realtime_price_text("foocoin"))
    /\ \E i \in DOMAIN messages :
          /\ messages[i].role = "assistant"
          /\ messages[i].content.kind \in {"schema_help", "strategy_added",
                                           "ai"}

\* C6 as stated: when process_message returns an error, the turn has
\* inserted exactly one message, the user message.
C6_Original ==
    \A a \in Agents :
        (turn[a].pc = "returned" /\ turn[a].ret.status = "err")
        => /\ Len(TurnRows(a)) = 1
           /\ TurnRows(a)[1].role = "user"

\* C6: when process_message returns an error, the turn has inserted no
\* assistant message: it has inserted the user message and nothing else,
\* or nothing at all when the error is the failure to save the user message.
C6_NoAssistantRowOnError ==
    \A a \in Agents :
        (turn[a].pc = "returned" /\ turn[a].ret.status = "err")
        => \/ /\ Len(TurnRows(a)) = 1
              /\ TurnRows(a)[1] =
                     message_row("user", UserText(turn[a].user_message),
                                 turn[a].id)
           \/ /\ TurnRows(a) = <<>>
              /\ turn[a].ret.err = "Database"
              /\ turn[a].trace = <<"return_err">>

\* a turn was aborted with an error after a response text had been computed
\* (the save of the assistant message failed), in a table that already holds
\* the messages of an earlier turn
C6_Witness ==
    \E a \in Agents :
        /\ turn[a].pc = "returned"
        /\ turn[a].ret = ErrRet("Database")
        /\ Occurs(turn[a].trace, "computed")
        /\ Len(TurnRows(a)) = 1
        /\ Len(messages) > 1

\* ================================================= claims on SpecIntent

\* the turn has gone through the matchers of handle_price_query
Classified(t) == Occurs(t.trace, "classify")

\* neither historical matcher applies to the message
NotHistorical(m) ==
    /\ ~historical_regex(m).matched
    /\ ~historical_general_regex(m).matched

\* C11: the matchers are tried in the order dated historical, undated
\* historical, explicit current-price patterns, entry-points patterns,
\* generic "what is X"; when several matchers would extract different coins
\* the coin of the highest-priority one is used.  Here: when no historical
\* and no explicit current-price pattern applies and the entry-points
\* pattern extracts a coin, that coin is the one the turn uses, whatever
\* the generic "what is X" pattern would extract.
C11_EntryPointsBeforeGeneric ==
    \A a \in Agents :
        LET t == turn[a]
            m == t.user_message
        IN  (/\ Classified(t)
             /\ NotHistorical(m)
             /\ ~price_regex(m).matched
             /\ ~direct_regex(m).matched
             /\ first_group(entry_points_regex(m)) # "")
            => t.crypto = first_group(entry_points_regex(m))

\* the coins the four current-price matchers can extract from the message
ExtractableCoins(m) ==
    { first_group(r) : r \in { price_regex(m), common_crypto_regex(m),
                               entry_points_regex(m), direct_regex(m) } }
    \ {""}

\* handle_price_query returned Ok(None): the turn went on as general chat
PassedOn(t) == t.pc = "strategy" \/ Occurs(t.trace, "classify_strategy")

\* C12: the winning matcher is the first that produces a non-empty coin; a
\* pattern that matches without capturing a coin does not stop the later
\* ones, so a message from which any matcher can extract a coin is never
\* passed on as general chat.
C12_CoinNeverPassedOn ==
    \A a \in Agents :
        LET t == turn[a]
            m == t.user_message
        IN  (/\ Classified(t)
             /\ NotHistorical(m)
             /\ ExtractableCoins(m) # {})
            => ~PassedOn(t)

\* ==================================================== claims on SpecChat

\* the number of times event e occurs in the trace
Count(tr, e) == Cardinality({ i \in DOMAIN tr : tr[i] = e })

\* the branches a turn has entered: ResolvingPrice calls the price source or
\* the search source, ExtractingStrategy reads the fields of the message,
\* AssemblingContext reads the history and calls the language model
BranchesEntered(t) ==
    (IF Occurs(t.trace, "price_call") \/ Occurs(t.trace, "search_call")
     THEN {"ResolvingPrice"} ELSE {})
    \cup (IF Occurs(t.trace, "strategy_write")
              \/ t.response = schema_help_text
           THEN {"ExtractingStrategy"} ELSE {})
    \cup (IF Occurs(t.trace, "history_read") \/ Occurs(t.trace, "llm_call")
           THEN {"AssemblingContext"} ELSE {})

\* no matcher of handle_price_query and no strategy keyword applies
MatchesNothing(m) ==
    /\ NotHistorical(m)
    /\ extract_crypto(m) = ""
    /\ ~is_strategy_request(m)

\* C13: each processed message is resolved by exactly one of the branches
\* ResolvingPrice, ExtractingStrategy, AssemblingContext: a turn never enters
\* two of them, the language model is called at most once per turn, and only
\* for a message classified as general chat.
C13_OneBranchPerTurn ==
    \A a \in Agents :
        LET t == turn[a]
        IN  /\ Cardinality(BranchesEntered(t)) <= 1
            /\ Count(t.trace, "llm_call") <= 1
            /\ Occurs(t.trace, "llm_call") => MatchesNothing(t.user_message)

\* the intent under which a turn that has left handle_price_query is
\* handled: Ok(None) passes it on to the strategy check and the chat, a
\* dated match is answered (or fails) in the dated branch, the undated branch
\* answers with its own text, everything else is the current-price branch
handled_as(t) ==
    LET m == t.user_message
    IN  IF t.pc = "strategy"
        THEN IF is_strategy_request(m) THEN "StrategyCreation"
             ELSE "GeneralChat"
        ELSE IF historical_regex(m).matched THEN "HistoricalPriceQuery"
        ELSE IF t.response.kind = "historical_general"
        THEN "GeneralHistoricalQuery"
        ELSE "PriceQuery"

\* C14: classification is a pure function of the message text: for one
\* message text the chosen intent is the same whatever the price source and
\* the search source answer, so any two results handle_price_query can come
\* to for the message of a turn are handled under the same intent.
C14_IntentIndependentOfAnswers ==
    \A a \in Agents :
        turn[a].pc = "price_query"
        => \A t1, t2 \in PriceQueryResults(turn[a]) :
               handled_as(t1) = handled_as(t2)

\* ================================================= claims on SpecIntent

RequiredLabels == {"name:", "category:", "description:", "risk level:"}

\* the required labels for which the message gives a text on the label's
\* own line
stated_fields(m) ==
    CASE m = "Save strategy\nName: DCA Plan\nCategory: yield\nDescription: buy weekly\nRisk Level: low" ->
             RequiredLabels
      [] m = "Save strategy\nName: X" -> {"name:"}
      [] m = "Save strategy\nName:\nCategory: yield\nDescription: buy weekly\nRisk Level: low" ->
             {"category:", "description:", "risk level:"}
      [] OTHER -> {}

\* C15: for a strategy-creation request in which any of name, category,
\* description or risk level is absent, the response is the schema-help
\* text and create_strategy is never called in that turn.
C15_MissingFieldBlocksCreation ==
    \A a \in Agents :
        LET t == turn[a]
            m == t.user_message
        IN  (/\ Occurs(t.trace, "classify_strategy")
             /\ is_strategy_request(m)
             /\ stated_fields(m) # RequiredLabels)
            => /\ t.response = schema_help_text
               /\ ~Occurs(t.trace, "strategy_write")
               /\ \A i \in DOMAIN strategies : strategies[i].turn_id # t.id

\* ==================================================== claims on SpecChat

\* the rows of the strategies table that the process_message call id made
RowsOfTurn(id) == SelectSeq(strategies, LAMBDA r : r.turn_id = id)

\* create_strategy was called in the turn and returned Ok
StorageSucceeded(t) ==
    /\ Occurs(t.trace, "strategy_write")
    /\ t.response.kind = "strategy_added"

\* the request of the turn gives all four required fields
CompleteRequest(t) ==
    /\ Occurs(t.trace, "classify_strategy")
    /\ is_strategy_request(t.user_message)
    /\ stated_fields(t.user_message) = RequiredLabels

\* C16: for a strategy-creation request with name, category, description
\* and risk level all present and a successful storage call, exactly one
\* StrategyRecord is created in that turn, carrying the four extracted
\* fields and a non-empty generated strategy_id; no turn ever creates more
\* than one StrategyRecord.
C16_ExactlyOneRecord ==
    /\ \A i, j \in DOMAIN strategies :
           strategies[i].turn_id = strategies[j].turn_id => i = j
    /\ \A a \in Agents :
           LET t == turn[a]
               m == t.user_message
               rows == RowsOfTurn(t.id)
           IN  (CompleteRequest(t) /\ StorageSucceeded(t))
               => /\ Len(rows) = 1
                  /\ rows[1].record.owner = a
                  /\ rows[1].record.name = extract_field(m, "name:")
                  /\ rows[1].record.category = extract_field(m, "category:")
                  /\ rows[1].record.description
                         = extract_field(m, "description:")
                  /\ rows[1].record.risk_level
                         = extract_field(m, "risk level:")
                  /\ rows[1].record.name # None
                  /\ rows[1].record.category # None
                  /\ rows[1].record.description # None
                  /\ rows[1].record.risk_level # None
                  /\ rows[1].record.strategy_id # <<>>
                  /\ rows[1].record.strategy_id[1] # ""

\* a second complete request has been stored: both turns have their row
C16_Witness ==
    \E a \in Agents :
        /\ CompleteRequest(turn[a])
        /\ StorageSucceeded(turn[a])
        /\ turn[a].ret.status = "ok"
        /\ Len(strategies) = 2

\* C17: strategy_id is unique per owning user: after any sequence of
\* strategy creations by one user, with any names and any timing, no two
\* StrategyRecords of that user have the same strategy_id.
C17_StrategyIdUniquePerUser ==
    \A i, j \in DOMAIN strategies :
        (/\ strategies[i].record.owner = strategies[j].record.owner
         /\ strategies[i].record.strategy_id
                = strategies[j].record.strategy_id)
        => i = j

\* =================================================== claims on SpecDates

digit_value(ch) ==
    CASE ch = "0" -> 0 [] ch = "1" -> 1 [] ch = "2" -> 2 [] ch = "3" -> 3
      [] ch = "4" -> 4 [] ch = "5" -> 5 [] ch = "6" -> 6 [] ch = "7" -> 7
      [] ch = "8" -> 8 [] ch = "9" -> 9

\* the number a digit string stands for
to_number(str) ==
    LET F[i \in 0..Len(str)] ==
            IF i = 0 THEN 0 ELSE 10 * F[i - 1] + digit_value(str[i])
    IN  F[Len(str)]

\* the string cut at the separators and at blanks
Fields(s) ==
    LET F[i \in 0..Len(s)] ==
            IF i = 0 THEN << <<>> >>
            ELSE IF s[i] \in DateSeparators \cup {" "}
                 THEN Append(F[i - 1], <<>>)
                 ELSE [F[i - 1] EXCEPT ![Len(F[i - 1])] = Append(@, s[i])]
    IN  F[Len(s)]

MonthNames ==
    { <<"F", "e", "b", "r", "u", "a", "r", "y">>,
      <<"D", "e", "c", "e", "m", "b", "e", "r">> }

month_number(name) ==
    CASE name = <<"F", "e", "b", "r", "u", "a", "r", "y">> -> 2
      [] name = <<"D", "e", "c", "e", "m", "b", "e", "r">> -> 12

NoDate == [day |-> 0, month |-> 0, year |-> 0]

\* the day, month and year a string of one of the supported forms states:
\* "<day> <MonthName> <year>", yyyy-mm-dd, dd-mm-yyyy, dd-mm-yy
Denoted(s) ==
    LET f == Fields(s)
    IN  IF Len(f) # 3 THEN NoDate
        ELSE IF f[2] \in MonthNames
        THEN IF is_digits(f[1], 1, 2) /\ is_digits(f[3], 4, 4)
             THEN [day |-> to_number(f[1]), month |-> month_number(f[2]),
                   year |-> to_number(f[3])]
             ELSE NoDate
        ELSE IF ~(\A i \in 1..3 : is_digits(f[i], 1, 4)) THEN NoDate
        ELSE IF Len(f[1]) = 4 /\ Len(f[2]) <= 2 /\ Len(f[3]) <= 2
        THEN [day |-> to_number(f[3]), month |-> to_number(f[2]),
              year |-> to_number(f[1])]
        ELSE IF Len(f[1]) <= 2 /\ Len(f[2]) <= 2 /\ Len(f[3]) = 4
        THEN [day |-> to_number(f[1]), month |-> to_number(f[2]),
              year |-> to_number(f[3])]
        ELSE IF Len(f[1]) <= 2 /\ Len(f[2]) <= 2 /\ Len(f[3]) = 2
        THEN [day |-> to_number(f[1]), month |-> to_number(f[2]),
              year |-> 2000 + to_number(f[3])]
        ELSE NoDate

is_leap_year(y) == (y % 4 = 0 /\ y % 100 # 0) \/ y % 400 = 0

days_in_month(m, y) ==
    CASE m \in {1, 3, 5, 7, 8, 10, 12} -> 31
      [] m \in {4, 6, 9, 11} -> 30
      [] m = 2 -> IF is_leap_year(y) THEN 29 ELSE 28
      [] OTHER -> 0

\* the string states a date of the calendar
ExistingDate(s) ==
    LET d == Denoted(s)
    IN  /\ d # NoDate
        /\ d.month \in 1..12
        /\ d.day \in 1..days_in_month(d.month, d.year)

\* C18: for every date string the historical-price matcher can pass on that
\* does not denote an existing calendar date (day outside 1-31, month
\* outside 1-12, or a day the month does not have, such as 31-02-2024), the
\* Date Normalizer fails with InvalidInput and returns no canonical string.
C18_InvalidDatesRejected ==
    (/\ date_output # NotCalled
     /\ historical_date_group(date_input)
     /\ ~ExistingDate(date_input))
    => ~date_output.ok

DigitChars == <<"0", "1", "2", "3", "4", "5", "6", "7", "8", "9">>

digit_char(n) == DigitChars[n + 1]

\* the canonical dd-mm-yyyy string of a date
Canonical(d) ==
    <<digit_char(d.day \div 10), digit_char(d.day % 10), "-",
      digit_char(d.month \div 10), digit_char(d.month % 10), "-",
      digit_char(d.year \div 1000), digit_char((d.year \div 100) % 10),
      digit_char((d.year \div 10) % 10), digit_char(d.year % 10)>>

\* C19: all supported date strings that denote the same calendar date (ISO
\* yyyy-mm-dd, dd-mm-yyyy, two-digit year, separators '-', '/' or '.', one-
\* or two-digit day and month, and the spelled-out "<day> <MonthName>
\* <year>" form) are normalized to one identical canonical dd-mm-yyyy
\* string: each of them to the dd-mm-yyyy string of the date it denotes.
C19_SameDateSameString ==
    (date_output # NotCalled /\ ExistingDate(date_input))
    => date_output = [ok |-> TRUE, value |-> Canonical(Denoted(date_input))]

HandledAsStrategy(t) ==
    /\ Occurs(t.trace, "classify_strategy")
    /\ (t.response = schema_help_text \/ Occurs(t.trace, "strategy_write"))

\* C21: a message that no price matcher claims is handled as a
\* strategy-creation request if and only if, compared case-insensitively, it
\* contains "strategy" together with at least one of save, add, create,
\* store, or it contains the phrase "please save this".
C21_StrategyTrigger ==
    \A a \in Agents :
        LET t == turn[a]
            m == t.user_message
        IN  Occurs(t.trace, "classify_strategy")
            => (HandledAsStrategy(t)
                <=> \/ /\ contains(m, "strategy")
                       /\ \/ contains(m, "save") \/ contains(m, "add")
                          \/ contains(m, "create") \/ contains(m, "store")
                    \/ contains(m, "please save this"))

\* ================================================== claims on SpecPrice

\* the pattern of the current-price cascade that gives the coin of the
\* message
coin_matcher(m) ==
    IF first_group(price_regex(m)) # "" THEN "price"
    ELSE IF price_regex(m).matched THEN "none"
    ELSE IF common_crypto_regex(m).matched THEN "generic"
    ELSE IF first_group(entry_points_regex(m)) # "" THEN "entry"
    ELSE IF entry_points_regex(m).matched THEN "none"
    ELSE IF first_group(direct_regex(m)) # "" THEN "direct"
    ELSE "none"

\* the message has entry-point wording
EntryWording(m) ==
    \/ contains(m, "entry points") \/ contains(m, "entering points")
    \/ contains(m, "entry point") \/ contains(m, "entering point")
    \/ (contains(m, "price")
        /\ (contains(m, "entry") \/ contains(m, "enter")))
    \/ (contains(m, "buy")
        /\ (contains(m, "level") \/ contains(m, "when")))
    \/ (contains(m, "good") /\ contains(m, "entry"))

\* the current price was fetched and the turn answers with it
PriceAnswered(t) ==
    /\ Classified(t)
    /\ NotHistorical(t.user_message)
    /\ t.response.kind \in {"current_price", "entry_points"}

\* C22: a message whose coin is extracted by an explicit current-price
\* pattern and that has no entry-point wording gets the plain price
\* response (wants_entry_points = false); every message whose coin is
\* extracted by the entry-points pattern gets the entry-points analysis
\* (wants_entry_points = true); both for the extracted coin.
C22_EntryPointsFlag ==
    \A a \in Agents :
        LET t == turn[a]
            m == t.user_message
        IN  PriceAnswered(t)
            => /\ (coin_matcher(m) \in {"price", "direct"}
                   /\ ~EntryWording(m))
                  => t.response.kind = "current_price"
               /\ coin_matcher(m) = "entry"
                  => t.response.kind = "entry_points"
               /\ t.response.subject = get_display_name(extract_crypto(m))

\* an entry-points question in the "prices for X entering" form and a
\* plain price question have both been answered
C22_Witness ==
    /\ \E i \in DOMAIN messages :
           /\ messages[i].role = "assistant"
           /\ messages[i].content.kind = "current_price"
    /\ \E a \in Agents :
           /\ PriceAnswered(turn[a])
           /\ coin_matcher(turn[a].user_message) = "entry"
           /\ ~contains(turn[a].user_message, "entry points")
           /\ turn[a].ret.status = "ok"

\* ================================================= claims on SpecLevels

\* the written number, in units of the last of `decimals` decimals, is the
\* value v (in 1/1000000 dollar) rounded to that many decimals
Rounds(written, v, decimals) ==
    LET unit == 1000000 \div Pow10(decimals)
        diff == written * unit - v
    IN  2 * diff <= unit /\ 2 * diff >= -unit

\* the levels are those of the factors (in percent) around the price
LevelsAre(l, price, decimals, strong_support, support, resistance,
          strong_resistance) ==
    /\ l.decimals = decimals
    /\ Rounds(l.price_str, price * 100, decimals)
    /\ Rounds(l.strong_support_str, price * strong_support, decimals)
    /\ Rounds(l.support_str, price * support, decimals)
    /\ Rounds(l.resistance_str, price * resistance, decimals)
    /\ Rounds(l.strong_resistance_str, price * strong_resistance, decimals)

MajorAliases == {"bitcoin", "btc", "ethereum", "eth"}

\* C23: for any positive fetched price p, the answer for a major coin
\* (bitcoin or ethereum under any recognized alias) uses support 0.92p,
\* resistance 1.08p, strong support 0.85p and strong resistance 1.15p with
\* 2 decimals; for every other coin 0.85p / 1.15p and 0.78p / 1.22p with 4
\* decimals; the class changes the text only: the price written is the
\* fetched one.
C23_PriceLevels ==
    quote_levels # NoLevels
    => IF quote_crypto \in MajorAliases
       THEN LevelsAre(quote_levels, quote_price, 2, 85, 92, 108, 115)
       ELSE LevelsAre(quote_levels, quote_price, 4, 78, 85, 115, 122)

\* the levels of a major coin under its ticker have been written for a
\* price whose support level lies on a rounding tie
C23_Witness ==
    /\ quote_levels # NoLevels
    /\ quote_crypto = "eth"
    /\ quote_price = 1250
    /\ quote_levels.support_str = 12

\* ================================================== claims on SpecLists

\* C24: tags are never empty strings: for every Tags field text of a
\* strategy-creation message (comma-separated with any spacing or stray
\* commas, single value, or absent), every tag stored in the created
\* StrategyRecord is a non-empty string.
C24_NoEmptyTag ==
    (list_result.called /\ list_field = "tags:")
    => \A i \in DOMAIN list_result.stored : list_result.stored[i] # ""

\* what the message states for a label: the text on the label's own line
own_line(m, field_name) ==
    CASE m = "Save strategy\nName: S\nCategory: yield\nDescription: d\nRisk Level: low\nSteps: buy, hold, sell" /\ field_name = "steps:" ->
             "buy, hold, sell"
      [] m = "Save strategy\nName: S\nCategory: yield\nDescription: d\nRisk Level: low\nSteps:\n1. buy\n2. hold\n3. sell" /\ field_name = "steps:" ->
             ""
      [] m = "Save strategy\nName: S\nCategory: yield\nDescription: d\nRisk Level: low\nSteps: as follows\n1. buy\n2. hold" /\ field_name = "steps:" ->
             "as follows"
      [] m = "Save strategy\nName: S\nCategory: yield\nDescription: d\nRisk Level: low\nSteps:\n1. buy, then wait\n2. sell" /\ field_name = "steps:" ->
             ""
      [] m = "Save strategy\nName: S\nCategory: yield\nDescription: d\nRisk Level: low\nTags: defi" /\ field_name = "tags:" ->
             "defi"
      [] m = "Save strategy\nName: S\nCategory: yield\nDescription: d\nRisk Level: low\nTags: defi\nSteps: buy, hold, sell" /\ field_name = "tags:" ->
             "defi"
      [] m = "Save strategy\nName: S\nCategory: yield\nDescription: d\nRisk Level: low\nTags: defi\nSteps: buy, hold, sell" /\ field_name = "steps:" ->
             "buy, hold, sell"
      [] m = "Save strategy\nName: S\nCategory: yield\nDescription: d\nRisk Level: low\nTags: defi\nSteps:\n1. buy\n2. hold\n3. sell" /\ field_name = "tags:" ->
             "defi"
      [] m = "Save strategy\nName: S\nCategory: yield\nDescription: d\nRisk Level: low\nTags: defi\nSteps:\n1. buy\n2. hold\n3. sell" /\ field_name = "steps:" ->
             ""
      [] m = "Save strategy\nName: S\nCategory: yield\nDescription: d\nRisk Level: low\nTags: defi\nSteps: as follows\n1. buy\n2. hold" /\ field_name = "tags:" ->
             "defi"
      [] m = "Save strategy\nName: S\nCategory: yield\nDescription: d\nRisk Level: low\nTags: defi\nSteps: as follows\n1. buy\n2. hold" /\ field_name = "steps:" ->
             "as follows"
      [] m = "Save strategy\nName: S\nCategory: yield\nDescription: d\nRisk Level: low\nTags: defi\nSteps:\n1. buy, then wait\n2. sell" /\ field_name = "tags:" ->
             "defi"
      [] m = "Save strategy\nName: S\nCategory: yield\nDescription: d\nRisk Level: low\nTags: defi\nSteps:\n1. buy, then wait\n2. sell" /\ field_name = "steps:" ->
             ""
      [] m = "Save strategy\nName: S\nCategory: yield\nDescription: d\nRisk Level: low\nTags: defi, yield" /\ field_name = "tags:" ->
             "defi, yield"
      [] m = "Save strategy\nName: S\nCategory: yield\nDescription: d\nRisk Level: low\nTags: defi, yield\nSteps: buy, hold, sell" /\ field_name = "tags:" ->
             "defi, yield"
      [] m = "Save strategy\nName: S\nCategory: yield\nDescription: d\nRisk Level: low\nTags: defi, yield\nSteps: buy, hold, sell" /\ field_name = "steps:" ->
             "buy, hold, sell"
      [] m = "Save strategy\nName: S\nCategory: yield\nDescription: d\nRisk Level: low\nTags: defi, yield\nSteps:\n1. buy\n2. hold\n3. sell" /\ field_name = "tags:" ->
             "defi, yield"
      [] m = "Save strategy\nName: S\nCategory: yield\nDescription: d\nRisk Level: low\nTags: defi, yield\nSteps:\n1. buy\n2. hold\n3. sell" /\ field_name = "steps:" ->
             ""
      [] m = "Save strategy\nName: S\nCategory: yield\nDescription: d\nRisk Level: low\nTags: defi, yield\nSteps: as follows\n1. buy\n2. hold" /\ field_name = "tags:" ->
             "defi, yield"
      [] m = "Save strategy\nName: S\nCategory: yield\nDescription: d\nRisk Level: low\nTags: defi, yield\nSteps: as follows\n1. buy\n2. hold" /\ field_name = "steps:" ->
             "as follows"
      [] m = "Save strategy\nName: S\nCategory: yield\nDescription: d\nRisk Level: low\nTags: defi, yield\nSteps:\n1. buy, then wait\n2. sell" /\ field_name = "tags:" ->
             "defi, yield"
      [] m = "Save strategy\nName: S\nCategory: yield\nDescription: d\nRisk Level: low\nTags: defi, yield\nSteps:\n1. buy, then wait\n2. sell" /\ field_name = "steps:" ->
             ""
      [] m = "Save strategy\nName: S\nCategory: yield\nDescription: d\nRisk Level: low\nTags: defi,,yield" /\ field_name = "tags:" ->
             "defi,,yield"
      [] m = "Save strategy\nName: S\nCategory: yield\nDescription: d\nRisk Level: low\nTags: defi,,yield\nSteps: buy, hold, sell" /\ field_name = "tags:" ->
             "defi,,yield"
      [] m = "Save strategy\nName: S\nCategory: yield\nDescription: d\nRisk Level: low\nTags: defi,,yield\nSteps: buy, hold, sell" /\ field_name = "steps:" ->
             "buy, hold, sell"
      [] m = "Save strategy\nName: S\nCategory: yield\nDescription: d\nRisk Level: low\nTags: defi,,yield\nSteps:\n1. buy\n2. hold\n3. sell" /\ field_name = "tags:" ->
             "defi,,yield"
      [] m = "Save strategy\nName: S\nCategory: yield\nDescription: d\nRisk Level: low\nTags: defi,,yield\nSteps:\n1. buy\n2. hold\n3. sell" /\ field_name = "steps:" ->
             ""
      [] m = "Save strategy\nName: S\nCategory: yield\nDescription: d\nRisk Level: low\nTags: defi,,yield\nSteps: as follows\n1. buy\n2. hold" /\ field_name = "tags:" ->
             "defi,,yield"
      [] m = "Save strategy\nName: S\nCategory: yield\nDescription: d\nRisk Level: low\nTags: defi,,yield\nSteps: as follows\n1. buy\n2. hold" /\ field_name = "steps:" ->
             "as follows"
      [] m = "Save strategy\nName: S\nCategory: yield\nDescription: d\nRisk Level: low\nTags: defi,,yield\nSteps:\n1. buy, then wait\n2. sell" /\ field_name = "tags:" ->
             "defi,,yield"
      [] m = "Save strategy\nName: S\nCategory: yield\nDescription: d\nRisk Level: low\nTags: defi,,yield\nSteps:\n1. buy, then wait\n2. sell" /\ field_name = "steps:" ->
             ""
      [] m = "Save strategy\nName: S\nCategory: yield\nDescription: d\nRisk Level: low\nTags: defi," /\ field_name = "tags:" ->
             "defi,"
      [] m = "Save strategy\nName: S\nCategory: yield\nDescription: d\nRisk Level: low\nTags: defi,\nSteps: buy, hold, sell" /\ field_name = "tags:" ->
             "defi,"
      [] m = "Save strategy\nName: S\nCategory: yield\nDescription: d\nRisk Level: low\nTags: defi,\nSteps: buy, hold, sell" /\ field_name = "steps:" ->
             "buy, hold, sell"
      [] m = "Save strategy\nName: S\nCategory: yield\nDescription: d\nRisk Level: low\nTags: defi,\nSteps:\n1. buy\n2. hold\n3. sell" /\ field_name = "tags:" ->
             "defi,"
      [] m = "Save strategy\nName: S\nCategory: yield\nDescription: d\nRisk Level: low\nTags: defi,\nSteps:\n1. buy\n2. hold\n3. sell" /\ field_name = "steps:" ->
             ""
      [] m = "Save strategy\nName: S\nCategory: yield\nDescription: d\nRisk Level: low\nTags: defi,\nSteps: as follows\n1. buy\n2. hold" /\ field_name = "tags:" ->
             "defi,"
      [] m = "Save strategy\nName: S\nCategory: yield\nDescription: d\nRisk Level: low\nTags: defi,\nSteps: as follows\n1. buy\n2. hold" /\ field_name = "steps:" ->
             "as follows"
      [] m = "Save strategy\nName: S\nCategory: yield\nDescription: d\nRisk Level: low\nTags: defi,\nSteps:\n1. buy, then wait\n2. sell" /\ field_name = "tags:" ->
             "defi,"
      [] m = "Save strategy\nName: S\nCategory: yield\nDescription: d\nRisk Level: low\nTags: defi,\nSteps:\n1. buy, then wait\n2. sell" /\ field_name = "steps:" ->
             ""
      [] m = "Save strategy\nName: S\nCategory: yield\nDescription: d\nRisk Level: low\nTags:" /\ field_name = "tags:" ->
             ""
      [] m = "Save strategy\nName: S\nCategory: yield\nDescription: d\nRisk Level: low\nTags:\nSteps: buy, hold, sell" /\ field_name = "tags:" ->
             ""
      [] m = "Save strategy\nName: S\nCategory: yield\nDescription: d\nRisk Level: low\nTags:\nSteps: buy, hold, sell" /\ field_name = "steps:" ->
             "buy, hold, sell"
      [] m = "Save strategy\nName: S\nCategory: yield\nDescription: d\nRisk Level: low\nTags:\nSteps:\n1. buy\n2. hold\n3. sell" /\ field_name = "tags:" ->
             ""
      [] m = "Save strategy\nName: S\nCategory: yield\nDescription: d\nRisk Level: low\nTags:\nSteps:\n1. buy\n2. hold\n3. sell" /\ field_name = "steps:" ->
             ""
      [] m = "Save strategy\nName: S\nCategory: yield\nDescription: d\nRisk Level: low\nTags:\nSteps: as follows\n1. buy\n2. hold" /\ field_name = "tags:" ->
             ""
      [] m = "Save strategy\nName: S\nCategory: yield\nDescription: d\nRisk Level: low\nTags:\nSteps: as follows\n1. buy\n2. hold" /\ field_name = "steps:" ->
             "as follows"
      [] m = "Save strategy\nName: S\nCategory: yield\nDescription: d\nRisk Level: low\nTags:\nSteps:\n1. buy, then wait\n2. sell" /\ field_name = "tags:" ->
             ""
      [] m = "Save strategy\nName: S\nCategory: yield\nDescription: d\nRisk Level: low\nTags:\nSteps:\n1. buy, then wait\n2. sell" /\ field_name = "steps:" ->
             ""
      [] OTHER -> None

\* and the items of the numbered lines that follow that line
numbered_lines(m, field_name) ==
    CASE m = "Save strategy\nName: S\nCategory: yield\nDescription: d\nRisk Level: low\nSteps:\n1. buy\n2. hold\n3. sell" /\ field_name = "steps:" ->
             <<"buy", "hold", "sell">>
      [] m = "Save strategy\nName: S\nCategory: yield\nDescription: d\nRisk Level: low\nSteps: as follows\n1. buy\n2. hold" /\ field_name = "steps:" ->
             <<"buy", "hold">>
      [] m = "Save strategy\nName: S\nCategory: yield\nDescription: d\nRisk Level: low\nSteps:\n1. buy, then wait\n2. sell" /\ field_name = "steps:" ->
             <<"buy, then wait", "sell">>
      [] m = "Save strategy\nName: S\nCategory: yield\nDescription: d\nRisk Level: low\nTags: defi\nSteps:\n1. buy\n2. hold\n3. sell" /\ field_name = "steps:" ->
             <<"buy", "hold", "sell">>
      [] m = "Save strategy\nName: S\nCategory: yield\nDescription: d\nRisk Level: low\nTags: defi\nSteps: as follows\n1. buy\n2. hold" /\ field_name = "steps:" ->
             <<"buy", "hold">>
      [] m = "Save strategy\nName: S\nCategory: yield\nDescription: d\nRisk Level: low\nTags: defi\nSteps:\n1. buy, then wait\n2. sell" /\ field_name = "steps:" ->
             <<"buy, then wait", "sell">>
      [] m = "Save strategy\nName: S\nCategory: yield\nDescription: d\nRisk Level: low\nTags: defi, yield\nSteps:\n1. buy\n2. hold\n3. sell" /\ field_name = "steps:" ->
             <<"buy", "hold", "sell">>
      [] m = "Save strategy\nName: S\nCategory: yield\nDescription: d\nRisk Level: low\nTags: defi, yield\nSteps: as follows\n1. buy\n2. hold" /\ field_name = "steps:" ->
             <<"buy", "hold">>
      [] m = "Save strategy\nName: S\nCategory: yield\nDescription: d\nRisk Level: low\nTags: defi, yield\nSteps:\n1. buy, then wait\n2. sell" /\ field_name = "steps:" ->
             <<"buy, then wait", "sell">>
      [] m = "Save strategy\nName: S\nCategory: yield\nDescription: d\nRisk Level: low\nTags: defi,,yield\nSteps:\n1. buy\n2. hold\n3. sell" /\ field_name = "steps:" ->
             <<"buy", "hold", "sell">>
      [] m = "Save strategy\nName: S\nCategory: yield\nDescription: d\nRisk Level: low\nTags: defi,,yield\nSteps: as follows\n1. buy\n2. hold" /\ field_name = "steps:" ->
             <<"buy", "hold">>
      [] m = "Save strategy\nName: S\nCategory: yield\nDescription: d\nRisk Level: low\nTags: defi,,yield\nSteps:\n1. buy, then wait\n2. sell" /\ field_name = "steps:" ->
             <<"buy, then wait", "sell">>
      [] m = "Save strategy\nName: S\nCategory: yield\nDescription: d\nRisk Level: low\nTags: defi,\nSteps:\n1. buy\n2. hold\n3. sell" /\ field_name = "steps:" ->
             <<"buy", "hold", "sell">>
      [] m = "Save strategy\nName: S\nCategory: yield\nDescription: d\nRisk Level: low\nTags: defi,\nSteps: as follows\n1. buy\n2. hold" /\ field_name = "steps:" ->
             <<"buy", "hold">>
      [] m = "Save strategy\nName: S\nCategory: yield\nDescription: d\nRisk Level: low\nTags: defi,\nSteps:\n1. buy, then wait\n2. sell" /\ field_name = "steps:" ->
             <<"buy, then wait", "sell">>
      [] m = "Save strategy\nName: S\nCategory: yield\nDescription: d\nRisk Level: low\nTags:\nSteps:\n1. buy\n2. hold\n3. sell" /\ field_name = "steps:" ->
             <<"buy", "hold", "sell">>
      [] m = "Save strategy\nName: S\nCategory: yield\nDescription: d\nRisk Level: low\nTags:\nSteps: as follows\n1. buy\n2. hold" /\ field_name = "steps:" ->
             <<"buy", "hold">>
      [] m = "Save strategy\nName: S\nCategory: yield\nDescription: d\nRisk Level: low\nTags:\nSteps:\n1. buy, then wait\n2. sell" /\ field_name = "steps:" ->
             <<"buy, then wait", "sell">>
      [] OTHER -> <<>>

\* C29: for a list-valued field, extraction tries the comma split first,
\* then the numbered-list block, then the single value; when the label is
\* followed by a block of numbered lines (the label's own line empty or
\* not, and holding no comma list) the result has every numbered item of
\* the block, in order, none dropped.
C29_NumberedBlockComplete ==
    (/\ list_result.called
     /\ numbered_lines(list_message, list_field) # <<>>
     /\ own_line(list_message, list_field) \notin comma_values)
    => /\ list_result.some
       /\ list_result.items = numbered_lines(list_message, list_field)

\* ================================================= claims on SpecPrompt

\* the place of a piece of the prompt among the five sections: the
\* persona, the planning directive (the planning instructions and, in
\* planning mode, the response structure), the history, the retrieved
\* knowledge, the user's query
section_rank(name) ==
    CASE name = "role" -> 1
      [] name = "planning_instructions" -> 2
      [] name = "planning_structure" -> 2
      [] name = "conversation_context" -> 3
      [] name = "context" -> 4
      [] name = "user_query" -> 5

SectionRanks(prompt) == [i \in DOMAIN prompt |-> section_rank(prompt[i].name)]

\* the turn has assembled its prompt
Prompted(t) == t.prompt # <<>>

\* C25: every prompt handed to the language model has its sections in the
\* fixed order persona, planning directive, conversation history, retrieved
\* knowledge, user query, in planning mode and in normal mode and whether
\* or not history or knowledge is empty: the ranks of the pieces never
\* decrease, all five sections are there, and history, knowledge and the
\* query each occur once.
C25_PromptSectionOrder ==
    \A a \in Agents :
        Prompted(turn[a]) =>
            LET ranks == SectionRanks(turn[a].prompt)
            IN  /\ \A i, j \in DOMAIN ranks : i < j => ranks[i] <= ranks[j]
                /\ {ranks[i] : i \in DOMAIN ranks} = 1..5
                /\ \A r \in 3..5 :
                       Cardinality({i \in DOMAIN ranks : ranks[i] = r}) = 1
                /\ ranks[1] = 1 /\ ranks[2] = 2

\* a prompt in planning mode, with history and with knowledge, has reached
\* the language model
C25_Witness ==
    \E a \in Agents :
        /\ Prompted(turn[a])
        /\ is_planning_request(turn[a].user_message)
        /\ Occurs(turn[a].trace, "llm_call")
        /\ Len(turn[a].prompt) = 6
        /\ \E i \in DOMAIN turn[a].prompt :
               /\ turn[a].prompt[i].name = "conversation_context"
               /\ turn[a].prompt[i].text # <<>>
        /\ \E i \in DOMAIN turn[a].prompt :
               /\ turn[a].prompt[i].name = "context"
               /\ turn[a].prompt[i].text # <<>>

\* ============================================ claims on the save path

\* the call has returned without its user message saved: the first save
\* failed
UserSaveFailed(t) == t.pc = "returned" /\ ~Occurs(t.trace, "save_user")

\* the call has returned with a response computed and not saved: the save
\* of the assistant response failed
AssistantSaveFailed(t) ==
    /\ t.pc = "returned"
    /\ Occurs(t.trace, "computed")
    /\ ~Occurs(t.trace, "save_assistant")

\* C26: a persistence failure on the primary save path is reported as a
\* Database error: if saving the user message fails, process_message
\* returns Database and performs no classification, outbound call or other
\* write; if saving the assistant response fails, process_message returns
\* Database instead of the response text.
C26_SaveFailureIsDatabase ==
    \A a \in Agents :
        /\ UserSaveFailed(turn[a]) =>
              /\ turn[a].ret = ErrRet("Database")
              /\ turn[a].trace = <<"return_err">>
              /\ \A i \in DOMAIN messages : messages[i].turn_id # turn[a].id
              /\ \A i \in DOMAIN strategies :
                     strategies[i].turn_id # turn[a].id
        /\ AssistantSaveFailed(turn[a]) =>
              /\ turn[a].ret = ErrRet("Database")
              /\ turn[a].ret.text = NoText
              /\ turn[a].response # NoText
              /\ \A i \in DOMAIN messages :
                     messages[i].turn_id = turn[a].id =>
                         messages[i].role = "user"

\* the second call has failed on the save of its response, after a first
\* call that failed on the save of its user message and left no row
C26_Witness ==
    \E a \in Agents :
        /\ AssistantSaveFailed(turn[a])
        /\ turn[a].ret = ErrRet("Database")
        /\ turn[a].id = 2
        /\ Len(messages) = 1
        /\ messages[1] = message_row("user",
                                     UserText(turn[a].user_message), 2)

\* ============================================ claims on error handling

\* the message is a dated historical-price query whose captured date the
\* date normalizer rejects
DateNotNormalized(m) ==
    /\ historical_regex(m).matched
    /\ ~format_date_for_api(historical_regex(m).date).ok

\* C28: a date-normalization failure inside a dated historical-price query
\* does not abort the turn: when the date captured from the message cannot
\* be normalized, process_message still returns a text response that is
\* persisted as the assistant turn, rather than returning InvalidInput to
\* the caller.
C28_DateFailureDoesNotAbort ==
    \A a \in Agents :
        (/\ turn[a].pc = "returned"
         /\ Occurs(turn[a].trace, "save_user")
         /\ DateNotNormalized(turn[a].user_message))
        => /\ turn[a].ret # ErrRet("InvalidInput")
           /\ (turn[a].ret.status = "ok" =>
                  \E i \in DOMAIN messages :
                      /\ messages[i].turn_id = turn[a].id
                      /\ messages[i].role = "assistant")

\* ========================================= claims on the history section

\* the rows of the messages table written by the calls of user a
OwnRows(a) ==
    { i \in DOMAIN messages : sessions[messages[i].turn_id] = a }

\* the messages listed in the history section of a prompt, after its
\* heading
HistoryEntries(prompt) ==
    LET history == CHOOSE i \in DOMAIN prompt :
                       prompt[i].name = "conversation_context"
        lines == prompt[history].text
    IN  { lines[i] : i \in 2..Len(lines) }

\* C30: the conversation history placed in a user's prompt contains only
\* messages of that user's own conversation: the text of a message sent by
\* or to another user never appears in it.  Every message listed in the
\* history of a prompt built for a user is a row that one of that user's
\* own calls wrote.
C30_HistoryOfOwnConversation ==
    \A a \in Agents :
        Prompted(turn[a]) =>
            \A entry \in HistoryEntries(turn[a].prompt) :
                \E i \in OwnRows(a) :
                    /\ messages[i].role = entry[1]
                    /\ messages[i].content = entry[2]

\* ============================================== claims on SpecFetchFair

\* the caller is inside respect_rate_limit
InLimiter(c) == fpc[c] \in {"rl_enter", "rl_blocked", "rl_locked", "rl_sleep"}

\* the caller has finished respect_rate_limit and goes on to its request
PastLimiter(c) == acquired[c] /\ fpc[c] \in {"send", "inflight"}

\* the last value the clock takes in a behaviour
LastTick == (MaxTime \div ClockStep) * ClockStep

\* the interval to wait out ends after the last value of the clock
IntervalBeyondClock ==
    LAST_REQUEST # NoInstant /\ LAST_REQUEST + MIN_REQUEST_INTERVAL_MS > LastTick

\* C27: the rate limiter never deadlocks or starves a caller: under fair
\* scheduling, with callers invoking the limiter concurrently (also while
\* another caller is suspended waiting out the remaining interval), every
\* caller that has entered the limiter eventually finishes it and proceeds
\* to send its request (as long as the interval ends within the time the
\* clock covers).
C27_EveryCallerProceeds ==
    \A c \in Callers :
        InLimiter(c) ~> (PastLimiter(c) \/ IntervalBeyondClock)

====
